---- MODULE Spec2Model ----
(***************************************************************************)
(* Streaming telemetry ingestion and anomaly filtering of the CanSat       *)
(* BME280 dashboard (src/bme280/python/bme280_dashboard.py): line parser,  *)
(* validity filter, anomaly detector, rolling raw/clean windows, running   *)
(* statistics and the DTR reset policy, as one state machine whose single  *)
(* step is one call of the animation callback update().                    *)
(*                                                                         *)
(* Numbers: sensor values are integers (the unit of each channel), times   *)
(* are integer seconds of time.monotonic().  A float that may be None or   *)
(* NaN is a tagged record, so that None, NaN and every number are three    *)
(* different things, as they are in Python.                                *)
(***************************************************************************)
EXTENDS Integers, Sequences, FiniteSets, TLC

(***************************************************************************)
(* Values                                                                  *)
(***************************************************************************)
None   == [tag |-> "None", v |-> 0]
NaN    == [tag |-> "NaN", v |-> 0]
PosInf == [tag |-> "Inf", v |-> 0]
NegInf == [tag |-> "-Inf", v |-> 0]
Blank  == [tag |-> "Blank", v |-> 0]
Num(x) == [tag |-> "Num", v |-> x]

IsNone(x) == x.tag = "None"
IsNaN(x)  == x.tag = "NaN"
IsNum(x)  == x.tag = "Num"

\* What float() returns for the texts it accepts: a number, nan, inf or -inf
\* ("nan", "inf", "-inf", "infinity" in any case); it raises on the others.
IsFloat(x) == x.tag \in {"Num", "NaN", "Inf", "-Inf"}

Abs(n) == IF n < 0 THEN -n ELSE n

\* a < b of two Python floats: False when either is nan.
FloatLess(a, b) ==
  IF IsNum(a) /\ IsNum(b) THEN a.v < b.v
  ELSE IF IsNaN(a) \/ IsNaN(b) THEN FALSE
  ELSE IF a.tag = "-Inf" THEN b.tag # "-Inf"
  ELSE b.tag = "Inf" /\ a.tag # "Inf"

\* a + b of two Python floats: inf + -inf is nan.
FloatAdd(a, b) ==
  IF IsNum(a) /\ IsNum(b) THEN Num(a.v + b.v)
  ELSE IF IsNaN(a) \/ IsNaN(b) THEN NaN
  ELSE IF IsNum(a) THEN b
  ELSE IF IsNum(b) \/ a.tag = b.tag THEN a
  ELSE NaN

\* abs(a - b) of two Python floats: inf - inf is nan.
FloatAbsDiff(a, b) ==
  IF IsNum(a) /\ IsNum(b) THEN Num(Abs(a.v - b.v))
  ELSE IF IsNaN(a) \/ IsNaN(b) THEN NaN
  ELSE IF a.tag = b.tag THEN NaN
  ELSE PosInf

(***************************************************************************)
(* Configuration                                                           *)
(***************************************************************************)
Channels     == {"temp", "hum", "pres", "alt"}
ChannelOrder == <<"temp", "hum", "pres", "alt">>

\* Capacity of every deque.  The program uses 120; the model keeps the
\* capacity small so that eviction happens within the explored depth.
WINDOW == 3

ANOMALY_THRESHOLDS ==
  [k \in Channels |->
     CASE k = "alt"  -> 50
       [] k = "temp" -> 10
       [] k = "hum"  -> 30
       [] k = "pres" -> 20]

BASELINE_ALTITUDE  == 650
ALTITUDE_TOLERANCE == 500

VALID_RANGES ==
  [k \in Channels |->
     CASE k = "alt"  -> <<BASELINE_ALTITUDE - ALTITUDE_TOLERANCE,
                          BASELINE_ALTITUDE + ALTITUDE_TOLERANCE>>
       [] k = "temp" -> <<-40, 85>>
       [] k = "hum"  -> <<0, 100>>
       [] k = "pres" -> <<300, 1100>>]

MIN_RESET_INTERVAL           == 5
MAX_RESETS_BEFORE_ERROR      == 3
CONSECUTIVE_ERRORS_FOR_ALERT == 5

\* time.sleep(2) after the DTR pulse; the 0.1 s pulse itself is below the
\* one-second resolution of the model's clock.
RESET_SLEEP == 2

KEYMAP ==
  [k \in Channels |->
     CASE k = "temp" -> {"temp", "t", "temperature"}
       [] k = "hum"  -> {"hum", "h", "humidity"}
       [] k = "pres" -> {"pres", "p", "pressure"}
       [] k = "alt"  -> {"alt", "altitude", "height"}]

\* Keys compared as they were sent.
Lower_as_sent(k) == k

(***************************************************************************)
(* Line parser                                                             *)
(***************************************************************************)
\* The small letter of every capital letter of ASCII.
SmallLetter ==
  ("A" :> "a") @@ ("B" :> "b") @@ ("C" :> "c") @@ ("D" :> "d") @@ ("E" :>
  "e") @@ ("F" :> "f") @@ ("G" :> "g") @@ ("H" :> "h") @@ ("I" :> "i") @@
  ("J" :> "j") @@ ("K" :> "k") @@ ("L" :> "l") @@ ("M" :> "m") @@ ("N" :>
  "n") @@ ("O" :> "o") @@ ("P" :> "p") @@ ("Q" :> "q") @@ ("R" :> "r") @@
  ("S" :> "s") @@ ("T" :> "t") @@ ("U" :> "u") @@ ("V" :> "v") @@ ("W" :>
  "w") @@ ("X" :> "x") @@ ("Y" :> "y") @@ ("Z" :> "z")

\* str.lower() on a key of ASCII characters: every capital letter is
\* replaced by its small letter and every other character is kept.
RECURSIVE Lower(_)
Lower(k) ==
  IF k = "" THEN ""
  ELSE LET c == SubSeq(k, 1, 1)
       IN  (IF c \in DOMAIN SmallLetter THEN SmallLetter[c] ELSE c)
             \o Lower(SubSeq(k, 2, Len(k)))

\* raw = {k.strip().lower(): float(v) for k, v in pairs}: a later pair with
\* the same lowered key overwrites an earlier one.
RECURSIVE RawDict(_)
RawDict(pairs) ==
  IF pairs = <<>> THEN <<>>
  ELSE LET n    == Len(pairs)
           rest == RawDict(SubSeq(pairs, 1, n - 1))
           k    == Lower(pairs[n][1])
       IN  [x \in (DOMAIN rest \ {k}) |-> rest[x]] @@ (k :> Num(pairs[n][2]))

\* The records parse_line can return for the key=value pairs of a line.  The
\* aliases of a channel are a Python set of strings, whose iteration order is
\* not fixed: when a line carries several aliases of one channel, any of
\* them can be the one found first.
parse_line(pairs) ==
  LET raw     == RawDict(pairs)
      present == {c \in Channels : KEYMAP[c] \cap DOMAIN raw # {}}
  IN  {d \in [present -> {raw[a] : a \in DOMAIN raw}] :
         \A c \in present : \E a \in KEYMAP[c] \cap DOMAIN raw : d[c] = raw[a]}

(***************************************************************************)
(* Validity filter and anomaly detector                                    *)
(***************************************************************************)
\* A change equal to the threshold flagged.
check_anomaly_ge(key, new_value, old_value) ==
  IF IsNone(old_value) \/ IsNone(new_value) THEN [is_anomaly |-> FALSE, delta |-> Num(0)]
  ELSE IF IsNaN(new_value) \/ IsNaN(old_value) THEN [is_anomaly |-> FALSE, delta |-> Num(0)]
  ELSE LET delta == FloatAbsDiff(new_value, old_value)
       IN  [is_anomaly |-> key \in DOMAIN ANOMALY_THRESHOLDS
                             /\ ~ FloatLess(delta, Num(ANOMALY_THRESHOLDS[key]))
                             /\ ~ IsNaN(delta),
            delta |-> delta]

\* An unknown previous value taken for 0.0.
check_anomaly_unknown_as_zero(key, new_value, old_value) ==
  IF IsNone(new_value) \/ IsNaN(new_value) \/ IsNaN(old_value)
  THEN [is_anomaly |-> FALSE, delta |-> Num(0)]
  ELSE LET delta == FloatAbsDiff(new_value,
                                   IF IsNone(old_value) THEN Num(0) ELSE old_value)
       IN  [is_anomaly |-> key \in DOMAIN ANOMALY_THRESHOLDS
                             /\ FloatLess(Num(ANOMALY_THRESHOLDS[key]), delta),
            delta |-> delta]

check_anomaly(key, new_value, old_value) ==
  IF IsNone(old_value) \/ IsNone(new_value) THEN [is_anomaly |-> FALSE, delta |-> Num(0)]
  ELSE IF IsNaN(new_value) \/ IsNaN(old_value) THEN [is_anomaly |-> FALSE, delta |-> Num(0)]
  ELSE LET delta == FloatAbsDiff(new_value, old_value)
       IN  [is_anomaly |-> key \in DOMAIN ANOMALY_THRESHOLDS
                             /\ FloatLess(Num(ANOMALY_THRESHOLDS[key]), delta),
            delta |-> delta]

\* The limits themselves rejected.
is_value_in_valid_range_excl(key, value) ==
  IF IsNone(value) \/ IsNaN(value) THEN FALSE
  ELSE IF key \in DOMAIN VALID_RANGES
       THEN FloatLess(Num(VALID_RANGES[key][1]), value)
              /\ FloatLess(value, Num(VALID_RANGES[key][2]))
       ELSE TRUE

is_value_in_valid_range(key, value) ==
  IF IsNone(value) \/ IsNaN(value) THEN FALSE
  ELSE IF key \in DOMAIN VALID_RANGES
       THEN ~ (FloatLess(value, Num(VALID_RANGES[key][1]))
                 \/ FloatLess(Num(VALID_RANGES[key][2]), value))
       ELSE TRUE

\* interpretador.py states the same filter with a chained comparison.
is_value_valid(key, value) ==
  IF IsNone(value) \/ IsNaN(value) THEN FALSE
  ELSE IF key \in DOMAIN VALID_RANGES
       THEN ~ FloatLess(value, Num(VALID_RANGES[key][1]))
              /\ ~ FloatLess(Num(VALID_RANGES[key][2]), value)
       ELSE TRUE

(***************************************************************************)
(* Bounds of the exploration                                               *)
(***************************************************************************)
\* Telemetry records accepted in one session of the wide specification.
MaxPackets == 4
\* Telemetry records accepted in one session of the reset-policy
\* specification (three resets and an exhausted anomaly need eight).
MaxResetPackets == 8
\* Longest session, in seconds since start-up, of the wide specification.
MaxElapsed == 10
\* Longest session of the reset-policy specification.
MaxResetElapsed == 25

(***************************************************************************)
(* State                                                                   *)
(***************************************************************************)
VARIABLES
  clock,               \* time.monotonic() as of the last reading of it
  t0,                  \* t0 = time.monotonic() at start-up
  packet_count,
  reset_count,
  last_reset_time,
  last_values,         \* channel -> None | Num
  anomaly_log,         \* list of anomaly_info records
  sensor_error_state,  \* channel -> BOOLEAN
  out_of_range_count,  \* channel -> Nat
  t_data,              \* deque(maxlen=WINDOW) of elapsed times
  raw_data,            \* channel -> deque: temp_data, hum_data, pres_data, alt_data
  t_clean,
  clean_data,          \* channel -> deque: temp_clean, ...
  stats,               \* channel -> [min, max, sum, count]
  stats_clean,
  csv_rows,            \* rows appended to CSV_FILE after the header
  txt_anomaly,         \* which message the status text shows
  dtr_log,             \* ser: times at which DTR was pulsed low then high
  input_flushes,       \* ser: number of reset_input_buffer() calls
  tick,                \* locals of the most recent call of update()
  fn,                  \* arguments and result of a call of one of the pure functions
  lora,                \* lora_dashboard: its globals, buffers and CSV rows
  main                 \* the running script: where it is and what it holds open

dvars == <<clock, t0, packet_count, reset_count, last_reset_time, last_values,
           anomaly_log, sensor_error_state, out_of_range_count, t_data, raw_data,
           t_clean, clean_data, stats, stats_clean, csv_rows, txt_anomaly,
           dtr_log, input_flushes, tick>>

vars == <<dvars, fn, lora, main>>

(***************************************************************************)
(* Rolling windows and running statistics                                  *)
(***************************************************************************)
\* A full buffer refuses the new item.
deque_append_drop_new(buf, x) ==
  IF Len(buf) >= main.maxlen THEN buf ELSE Append(buf, x)

\* deque(maxlen=WINDOW).append(x): a full deque discards its oldest item.
\* main.maxlen is the maxlen the deques of the script were created with.
deque_append(buf, x) ==
  IF Len(buf) >= main.maxlen THEN Append(Tail(buf), x) ELSE Append(buf, x)

\* sum starts as the int 0 and is a float from the first value added to it.
EmptyStats == [min |-> PosInf, max |-> NegInf, sum |-> Num(0), count |-> 0]

\* min(stats[key]["min"], value) and max(stats[key]["max"], value) of
\* Python return their first argument unless the second is less, or
\* greater, than it; then the value is added to sum and counted.
Accumulate(st, value) ==
  [min |-> IF FloatLess(value, st.min) THEN value ELSE st.min,
   max |-> IF FloatLess(st.max, value) THEN value ELSE st.max,
   sum |-> FloatAdd(st.sum, value), count |-> st.count + 1]

\* The extremes overwritten by the latest value.
update_stats_latest(table, key, value) ==
  IF IsNone(value) \/ IsNaN(value) THEN table
  ELSE [table EXCEPT ![key] = [min |-> value, max |-> value,
                               sum |-> FloatAdd(table[key].sum, value),
                               count |-> table[key].count + 1]]

update_stats(table, key, value) ==
  IF IsNone(value) \/ IsNaN(value) THEN table
  ELSE [table EXCEPT ![key] = Accumulate(table[key], value)]

\* An absent channel appends nothing.
push_skip_absent(buf, key, d) ==
  IF key \in DOMAIN d THEN deque_append(buf, d[key]) ELSE buf

\* push(buf, key): the record's value, else the buffer's last value, else NaN.
push(buf, key, d) ==
  IF key \in DOMAIN d THEN deque_append(buf, d[key])
  ELSE deque_append(buf, IF Len(buf) > 0 THEN buf[Len(buf)] ELSE NaN)

\* The value carried forward for an absent channel folded as a reading.
push_stats_carried(table, key, d) ==
  IF key \in DOMAIN d THEN update_stats(table, key, d[key])
  ELSE update_stats(table, key, last_values[key])

push_stats(table, key, d) ==
  IF key \in DOMAIN d THEN update_stats(table, key, d[key]) ELSE table

(***************************************************************************)
(* One sample through the detectors                                        *)
(***************************************************************************)
\* The check made against last_values already holding the current sample.
anomalies_of_after_update(d, lv, now) ==
  LET cur  == [k \in Channels |-> IF k \in DOMAIN d THEN d[k] ELSE lv[k]]
      keys == SelectSeq(ChannelOrder,
                LAMBDA k : k \in DOMAIN d /\ check_anomaly(k, d[k], cur[k]).is_anomaly)
  IN  [i \in 1..Len(keys) |->
         [time |-> now, sensor |-> keys[i], old_value |-> cur[keys[i]],
          new_value |-> d[keys[i]],
          delta |-> check_anomaly(keys[i], d[keys[i]], cur[keys[i]]).delta,
          threshold |-> ANOMALY_THRESHOLDS[keys[i]]]]

\* The entry logged with the value last_values holds after the sample.
anomalies_of_logged_after_update(d, lv, now) ==
  LET keys == SelectSeq(ChannelOrder,
                LAMBDA k : k \in DOMAIN d /\ check_anomaly(k, d[k], lv[k]).is_anomaly)
  IN  [i \in 1..Len(keys) |->
         [time |-> now, sensor |-> keys[i], old_value |-> d[keys[i]],
          new_value |-> d[keys[i]],
          delta |-> check_anomaly(keys[i], d[keys[i]], lv[keys[i]]).delta,
          threshold |-> ANOMALY_THRESHOLDS[keys[i]]]]

\* The loop over temp, hum, pres, alt that builds anomalies_detected from the
\* record d and last_values as they are when the loop starts.
anomalies_of(d, lv, now) ==
  LET keys == SelectSeq(ChannelOrder,
                LAMBDA k : k \in DOMAIN d /\ check_anomaly(k, d[k], lv[k]).is_anomaly)
  IN  [i \in 1..Len(keys) |->
         [time |-> now, sensor |-> keys[i], old_value |-> lv[keys[i]],
          new_value |-> d[keys[i]],
          delta |-> check_anomaly(keys[i], d[keys[i]], lv[keys[i]]).delta,
          threshold |-> ANOMALY_THRESHOLDS[keys[i]]]]

range_errors_of(d) ==
  SelectSeq(ChannelOrder,
            LAMBDA k : k \in DOMAIN d /\ ~ is_value_in_valid_range(k, d[k]))

\* One valid channel is enough.
all_valid_any(d) == \E k \in DOMAIN d : is_value_in_valid_range(k, d[k])

\* all_valid: no present channel is out of its range.
all_valid_of(d) == \A k \in DOMAIN d : is_value_in_valid_range(k, d[k])

\* The streaks with an absent channel treated as a channel back in range.
streak_after_absent_reset(d) ==
  [k \in Channels |->
     IF k \notin DOMAIN d THEN 0
     ELSE IF is_value_in_valid_range(k, d[k]) THEN 0
     ELSE out_of_range_count[k] + 1]

\* The streak of a present channel grows on an out-of-range reading and is
\* set to 0 by a reading in range.
streak_after(d) ==
  [k \in Channels |->
     IF k \notin DOMAIN d THEN out_of_range_count[k]
     ELSE IF is_value_in_valid_range(k, d[k]) THEN 0
     ELSE out_of_range_count[k] + 1]

\* A reading in range leaves the flag as it was.
error_state_never_cleared(d) ==
  [k \in Channels |->
     IF k \notin DOMAIN d THEN sensor_error_state[k]
     ELSE IF is_value_in_valid_range(k, d[k]) THEN sensor_error_state[k]
     ELSE IF streak_after(d)[k] >= CONSECUTIVE_ERRORS_FOR_ALERT THEN TRUE
     ELSE sensor_error_state[k]]

error_state_after(d) ==
  [k \in Channels |->
     IF k \notin DOMAIN d THEN sensor_error_state[k]
     ELSE IF is_value_in_valid_range(k, d[k]) THEN FALSE
     ELSE IF streak_after(d)[k] >= CONSECUTIVE_ERRORS_FOR_ALERT THEN TRUE
     ELSE sensor_error_state[k]]

\* Only a reading in range becomes the value to compare the next one with.
last_values_after_valid_only(d) ==
  [k \in Channels |->
     IF k \in DOMAIN d /\ is_value_in_valid_range(k, d[k]) THEN d[k]
     ELSE last_values[k]]

last_values_after(d) ==
  [k \in Channels |-> IF k \in DOMAIN d THEN d[k] ELSE last_values[k]]

csv_row(d) == [k \in Channels |-> IF k \in DOMAIN d THEN d[k] ELSE Blank]

\* log_data_to_csv(d): one row appended to CSV_FILE.  When open() or
\* writerow() raises, the except clause prints the error and the row is
\* lost.
log_data_to_csv(rows, d) ==
  IF main.csv_writable THEN Append(rows, csv_row(d)) ELSE rows

clean_after(d) ==
  [k \in Channels |->
     IF k \in DOMAIN d THEN deque_append(clean_data[k], d[k]) ELSE clean_data[k]]

\* After an all-valid sample every channel whose clean buffer is not empty
\* folds that buffer's last item into its clean statistics.
RECURSIVE stats_clean_after(_, _, _)
stats_clean_after(table, cl, i) ==
  IF i > Len(ChannelOrder) THEN table
  ELSE LET k == ChannelOrder[i]
           t == IF Len(cl[k]) > 0
                THEN [table EXCEPT ![k] = Accumulate(table[k], cl[k][Len(cl[k])])]
                ELSE table
       IN  stats_clean_after(t, cl, i + 1)

(***************************************************************************)
(* Reset policy                                                            *)
(***************************************************************************)
\* The interval guard left out.
reset_arduino_no_interval(current_time) ==
  [ok |-> TRUE, reset_count |-> reset_count + 1, last_reset_time |-> current_time,
   dtr_log |-> Append(dtr_log, current_time), input_flushes |-> input_flushes + 1,
   clock |-> current_time + RESET_SLEEP]

\* last_reset_time taken from the clock after the two sleeps.
reset_arduino_time_after_sleep(current_time) ==
  IF current_time - last_reset_time < MIN_RESET_INTERVAL
  THEN [ok |-> FALSE, reset_count |-> reset_count, last_reset_time |-> last_reset_time,
        dtr_log |-> dtr_log, input_flushes |-> input_flushes, clock |-> current_time]
  ELSE [ok |-> TRUE, reset_count |-> reset_count + 1,
        last_reset_time |-> current_time + RESET_SLEEP,
        dtr_log |-> Append(dtr_log, current_time), input_flushes |-> input_flushes + 1,
        clock |-> current_time + RESET_SLEEP]

\* reset_arduino(ser, reason), called when the clock shows current_time: what
\* it returns and what it leaves in reset_count, last_reset_time, the serial
\* port and the clock.
reset_arduino(current_time) ==
  IF current_time - last_reset_time < MIN_RESET_INTERVAL
  THEN [ok |-> FALSE, reset_count |-> reset_count, last_reset_time |-> last_reset_time,
        dtr_log |-> dtr_log, input_flushes |-> input_flushes, clock |-> current_time]
  ELSE [ok |-> TRUE, reset_count |-> reset_count + 1, last_reset_time |-> current_time,
        dtr_log |-> Append(dtr_log, current_time), input_flushes |-> input_flushes + 1,
        clock |-> current_time + RESET_SLEEP]

\* One reset too many.
may_reset_off_by_one == reset_count <= MAX_RESETS_BEFORE_ERROR

\* if reset_count < MAX_RESETS_BEFORE_ERROR:
may_reset == reset_count < MAX_RESETS_BEFORE_ERROR

AllUnknown == [k \in Channels |-> None]

\* last_values left as the sample set them.
last_values_kept_after_reset_call(lv, ok) == lv

\* for key in last_values: last_values[key] = None, which follows the call of
\* reset_arduino whatever that call returned.
cleared_after_reset_call(lv, ok) == AllUnknown

(***************************************************************************)
(* update(_frame)                                                          *)
(***************************************************************************)
NoTick == [kind |-> "none", d |-> <<>>, current_time |-> 0, anomalies |-> <<>>,
           range_errors |-> <<>>, all_valid |-> FALSE, reset_called |-> FALSE,
           reset_time |-> 0, reset_ok |-> FALSE]

\* A line that is dropped counted as a packet.
Dropped_counts_packet(current_time) ==
  /\ clock' = current_time
  /\ packet_count' = packet_count + 1
  /\ tick' = [NoTick EXCEPT !.kind = "dropped", !.current_time = current_time]
  /\ UNCHANGED <<t0, reset_count, last_reset_time, last_values,
                 anomaly_log, sensor_error_state, out_of_range_count, t_data,
                 raw_data, t_clean, clean_data, stats, stats_clean, csv_rows,
                 txt_anomaly, dtr_log, input_flushes>>

\* A line that is empty or contains "error=": nothing but the clock moves.
Dropped(current_time) ==
  /\ clock' = current_time
  /\ tick' = [NoTick EXCEPT !.kind = "dropped", !.current_time = current_time]
  /\ UNCHANGED <<t0, packet_count, reset_count, last_reset_time, last_values,
                 anomaly_log, sensor_error_state, out_of_range_count, t_data,
                 raw_data, t_clean, clean_data, stats, stats_clean, csv_rows,
                 txt_anomaly, dtr_log, input_flushes>>

\* A line that contains "info=" clears the status text.
Info(current_time) ==
  /\ clock' = current_time
  /\ txt_anomaly' = ""
  /\ tick' = [NoTick EXCEPT !.kind = "info", !.current_time = current_time]
  /\ UNCHANGED <<t0, packet_count, reset_count, last_reset_time, last_values,
                 anomaly_log, sensor_error_state, out_of_range_count, t_data,
                 raw_data, t_clean, clean_data, stats, stats_clean, csv_rows,
                 dtr_log, input_flushes>>

\* The body of update() from "packet_count += 1" on, for the parsed record d
\* read when the clock shows current_time; delays are the times the drawing
\* code can take before reset_arduino reads the clock again.  chans are the
\* channels the script keeps raw buffers for and shown is the status text as
\* the lines read in this call left it.
IngestOn(chans, shown, d, current_time, delays) ==
  LET now        == current_time - t0
      anoms      == anomalies_of(d, last_values, now)
      rerrs      == range_errors_of(d)
      lv         == last_values_after(d)
      ses        == error_state_after(d)
      all_valid  == all_valid_of(d)
      td         == deque_append(t_data, now)
      tcl        == IF all_valid THEN deque_append(t_clean, now) ELSE t_clean
      cl         == IF all_valid THEN clean_after(d) ELSE clean_data
      early      == Len(tcl) < 2 /\ Len(td) < 2
      persistent == {k \in Channels : ses[k]}
      txt        == IF persistent # {} THEN "ERROR SENSOR"
                    ELSE IF rerrs # <<>> /\ anoms = <<>> THEN "FUERA DE RANGO"
                    ELSE shown
      base       == [NoTick EXCEPT !.kind = "data", !.d = d,
                       !.current_time = current_time,
                       !.anomalies = [i \in 1..Len(anoms) |-> anoms[i].sensor],
                       !.range_errors = rerrs, !.all_valid = all_valid]
  IN  /\ packet_count' = packet_count + 1
      /\ anomaly_log' = anomaly_log \o anoms
      /\ out_of_range_count' = streak_after(d)
      /\ sensor_error_state' = ses
      /\ csv_rows' = log_data_to_csv(csv_rows, d)
      /\ t_data' = td
      /\ raw_data' = [k \in Channels |->
                         IF k \in chans THEN push(raw_data[k], k, d) ELSE raw_data[k]]
      /\ stats' = [k \in Channels |-> push_stats(stats, k, d)[k]]
      /\ t_clean' = tcl
      /\ clean_data' = cl
      /\ stats_clean' = IF all_valid THEN stats_clean_after(stats_clean, cl, 1)
                        ELSE stats_clean
      /\ UNCHANGED t0
      /\ IF early
         THEN /\ last_values' = lv
              /\ clock' = current_time
              /\ txt_anomaly' = shown
              /\ tick' = [base EXCEPT !.kind = "early"]
              /\ UNCHANGED <<reset_count, last_reset_time, dtr_log, input_flushes>>
         ELSE IF anoms = <<>>
         THEN /\ last_values' = lv
              /\ clock' = current_time
              /\ txt_anomaly' = txt
              /\ tick' = base
              /\ UNCHANGED <<reset_count, last_reset_time, dtr_log, input_flushes>>
         ELSE IF may_reset
         THEN \E delay \in delays :
                LET r == reset_arduino(current_time + delay)
                IN  /\ reset_count' = r.reset_count
                    /\ last_reset_time' = r.last_reset_time
                    /\ dtr_log' = r.dtr_log
                    /\ input_flushes' = r.input_flushes
                    /\ clock' = r.clock
                    /\ last_values' = cleared_after_reset_call(lv, r.ok)
                    /\ txt_anomaly' = "ANOMALIA REINICIANDO"
                    /\ tick' = [base EXCEPT !.reset_called = TRUE,
                                  !.reset_time = current_time + delay,
                                  !.reset_ok = r.ok]
         ELSE /\ last_values' = lv
              /\ clock' = current_time
              /\ txt_anomaly' = "MAX RESETS ALCANZADO"
              /\ tick' = base
              /\ UNCHANGED <<reset_count, last_reset_time, dtr_log, input_flushes>>

\* One call of update(): ser.readline() returns `line` after dt seconds.
\* bme280_dashboard keeps buffers for all four channels and reads one line
\* per call.
update(line, dt, delays, max_packets, max_elapsed) ==
  LET current_time == clock + dt
  IN  /\ current_time - t0 <= max_elapsed
      /\ IF line.marker = "error=" \/ (line.marker = "" /\ line.pairs = <<>>)
         THEN Dropped(current_time)
         ELSE IF line.marker = "info="
         THEN Info(current_time)
         ELSE \E d \in parse_line(line.pairs) :
                IF DOMAIN d = {}
                THEN Dropped(current_time)
                ELSE /\ packet_count < max_packets
                     /\ IngestOn(Channels, txt_anomaly, d, current_time, delays)

(***************************************************************************)
(* lora_dashboard: process_line and update                                 *)
(***************************************************************************)
\* The text of a field that float() and int() reject ("abc", "").
Bad == [tag |-> "Bad", v |-> 0]

\* The branch of lora_dashboard.process_line for "CANSAT,<fields>": parts[0]
\* is "CANSAT" and parts[i] is fields[i].  The dict is built in one
\* expression, so any field that fails leaves None: int() takes whole
\* numbers only (id, ms) and float() also takes nan and the infinities.
process_line_cansat(fields, current_rssi, current_snr) ==
  IF Len(fields) + 1 < 6 THEN None
  ELSE IF ~ IsNum(fields[1]) THEN None
  ELSE IF \E i \in 2..5 : ~ IsFloat(fields[i]) THEN None
  ELSE IF Len(fields) + 1 > 6 /\ ~ IsNum(fields[6]) THEN None
  ELSE [type |-> "PRI", id |-> fields[1], temp |-> fields[2], pres |-> fields[3],
        alt |-> fields[4], hum |-> fields[5],
        ms |-> IF Len(fields) + 1 > 6 THEN fields[6] ELSE Num(0),
        rssi |-> IF IsNone(current_rssi) THEN NaN ELSE current_rssi,
        snr |-> IF IsNone(current_snr) THEN NaN ELSE current_snr]

\* The branch for "CANSAT_SEC,<fields>": id, ms, q0..q3, ax..az, px..pz.
process_line_sec(fields, current_rssi, current_snr) ==
  IF Len(fields) + 1 < 13 THEN None
  ELSE IF \E i \in 1..2 : ~ IsNum(fields[i]) THEN None
  ELSE IF \E i \in 3..12 : ~ IsFloat(fields[i]) THEN None
  ELSE [type |-> "SEC", id |-> fields[1], ms |-> fields[2],
        q |-> SubSeq(fields, 3, 6), acc |-> SubSeq(fields, 7, 9),
        pos |-> SubSeq(fields, 10, 12),
        rssi |-> IF IsNone(current_rssi) THEN NaN ELSE current_rssi,
        snr |-> IF IsNone(current_snr) THEN NaN ELSE current_snr]

\* The stored sideband values handed to one record only, then forgotten.
process_line_consumes(line, current_rssi, current_snr) ==
  IF line.kind = "RSSI" /\ IsNum(line.v)
  THEN [d |-> None, current_rssi |-> line.v, current_snr |-> current_snr]
  ELSE IF line.kind = "SNR" /\ IsNum(line.v)
  THEN [d |-> None, current_rssi |-> current_rssi, current_snr |-> line.v]
  ELSE IF line.kind = "CANSAT"
          /\ process_line_cansat(line.fields, current_rssi, current_snr) # None
  THEN [d |-> process_line_cansat(line.fields, current_rssi, current_snr),
        current_rssi |-> None, current_snr |-> None]
  ELSE [d |-> IF line.kind = "CANSAT_SEC"
              THEN process_line_sec(line.fields, current_rssi, current_snr)
              ELSE None,
        current_rssi |-> current_rssi, current_snr |-> current_snr]

\* process_line(raw): what it returns and what it leaves in current_rssi and
\* current_snr.  An "RSSI: " or "SNR: " line whose text has no number does
\* not match its pattern and, like any other line, returns None.
process_line(line, current_rssi, current_snr) ==
  IF line.kind = "RSSI" /\ IsNum(line.v)
  THEN [d |-> None, current_rssi |-> line.v, current_snr |-> current_snr]
  ELSE IF line.kind = "SNR" /\ IsNum(line.v)
  THEN [d |-> None, current_rssi |-> current_rssi, current_snr |-> line.v]
  ELSE [d |-> IF line.kind = "CANSAT"
              THEN process_line_cansat(line.fields, current_rssi, current_snr)
              ELSE IF line.kind = "CANSAT_SEC"
              THEN process_line_sec(line.fields, current_rssi, current_snr)
              ELSE None,
        current_rssi |-> current_rssi, current_snr |-> current_snr]

LoraKeys == {"temp", "pres", "alt", "hum", "rssi", "snr"}

\* At most this many lines are read in one call of update().
LINES_PER_TICK == 20

\* while ser.in_waiting > 0 and lines_processed < 20: a line that is empty
\* after strip() is read and passed over before lines_processed is counted
\* up.  The number of lines one call of update() reads from `pending`, given
\* that it has counted lines_processed so far.
RECURSIVE lora_lines_read(_, _)
lora_lines_read(pending, lines_processed) ==
  IF pending = <<>> \/ lines_processed >= LINES_PER_TICK THEN 0
  ELSE 1 + lora_lines_read(Tail(pending),
                           IF Head(pending).kind = "" THEN lines_processed
                           ELSE lines_processed + 1)

\* ov7670_dashboard: while ser.in_waiting > 0, with no count of the lines.
ov7670_lines_read(pending) == Len(pending)

\* The state of lora_dashboard after its module body has run; batch is what
\* the latest call of update() read and seen is all it has read so far.  log
\* is the rows of CSV_FILE after the header, and csv_writable says whether
\* the file can be opened for appending.
LoraInit ==
  [current_rssi |-> None, current_snr |-> None, packet_count |-> 0,
   log |-> <<>>, csv_writable |-> TRUE, t_data |-> <<>>,
   data |-> [k \in LoraKeys |-> <<>>],
   stats |-> [k \in LoraKeys |-> EmptyStats],
   batch |-> <<>>, seen |-> <<>>]

\* buf.append(val) for a number, else the buffer's last item again, else 0.
lora_push(buf, val) ==
  IF ~ (IsNone(val) \/ IsNaN(val)) THEN deque_append(buf, val)
  ELSE deque_append(buf, IF Len(buf) > 0 THEN buf[Len(buf)] ELSE Num(0))

\* One turn of the while loop of update() for a line that is not empty.
\* log_csv prints the error of a write that fails and the row is lost.
lora_ingest(st, line, now) ==
  LET r  == process_line(line, st.current_rssi, st.current_snr)
      s1 == [st EXCEPT !.current_rssi = r.current_rssi,
                       !.current_snr = r.current_snr,
                       !.seen = Append(@, line)]
  IN  IF r.d = None THEN s1
      ELSE LET s2 == [s1 EXCEPT !.packet_count = @ + 1,
                                !.log = IF st.csv_writable
                                        THEN Append(@, r.d) ELSE @]
           IN  IF r.d.type = "PRI"
               THEN [s2 EXCEPT
                       !.t_data = deque_append(@, now),
                       !.data = [k \in LoraKeys |-> lora_push(@[k], r.d[k])],
                       !.stats = [k \in LoraKeys |->
                                    update_stats(@, k, r.d[k])[k]]]
               ELSE s2

RECURSIVE lora_drain(_, _, _)
lora_drain(st, lines, now) ==
  IF lines = <<>> THEN st
  ELSE lora_drain(lora_ingest(st, Head(lines), now), Tail(lines), now)

(***************************************************************************)
(* The main program of each dashboard: plt.show() and what follows it      *)
(***************************************************************************)
\* The scripts that wrap plt.show() in try/finally.
GuardedScripts == {"bme280_dashboard", "ov7670_dashboard"}

\* The states in which a script is inside plt.show().  bme280, bmp280 and
\* lora_dashboard exit before it without a port, so the port is open;
\* ov7670_dashboard goes on with ser = None when no port is found or
\* serial.Serial() raises, and it is the one script that keeps the CSV file
\* open.  The other scripts open CSV_FILE for every row, and csv_writable
\* says whether that open() succeeds; the header was written at start-up, so
\* it did then.  Every deque was created with maxlen=WINDOW.
Running(script) ==
  { [script |-> script, pc |-> "show", ser_is_open |-> o,
     csv_open |-> script = "ov7670_dashboard", raised |-> FALSE,
     csv_writable |-> TRUE, maxlen |-> WINDOW] :
      o \in IF script = "ov7670_dashboard" THEN BOOLEAN ELSE {TRUE} }

\* plt.show() returns: the window was closed.
ShowReturns ==
  /\ main.pc = "show"
  /\ main' = [main EXCEPT !.pc = IF main.script \in GuardedScripts
                                 THEN "finally" ELSE "epilogue"]

\* plt.show() is left by KeyboardInterrupt or another exception: a finally
\* clause runs if there is one, otherwise the interpreter exits.
ShowRaises ==
  /\ main.pc = "show"
  /\ main' = [main EXCEPT !.raised = TRUE,
                          !.pc = IF main.script \in GuardedScripts
                                 THEN "finally" ELSE "ended"]

\* The states that can follow m outside plt.show().  In bme280_dashboard
\* export_graphs() comes before ser.close() and can itself raise (its first
\* statements are outside any try).  ov7670_dashboard closes the CSV file
\* first, outside any try: close() flushes what is buffered and raises when
\* the device takes no more, leaving the file closed and the script ended
\* before ser.close(); otherwise the port is closed, if there is one.
after_show(m) ==
  CASE m.script = "bme280_dashboard" /\ m.pc = "finally" ->
         {[m EXCEPT !.pc = "close"], [m EXCEPT !.pc = "ended", !.raised = TRUE]}
    [] m.script = "bme280_dashboard" /\ m.pc = "close" ->
         {[m EXCEPT !.pc = "report", !.ser_is_open = FALSE]}
    [] m.script = "ov7670_dashboard" /\ m.pc = "finally" ->
         {[m EXCEPT !.pc = "close", !.csv_open = FALSE],
          [m EXCEPT !.pc = "ended", !.csv_open = FALSE, !.raised = TRUE]}
    [] m.script = "ov7670_dashboard" /\ m.pc = "close" ->
         {[m EXCEPT !.pc = "report", !.ser_is_open = FALSE]}
    [] m.pc \in {"report", "epilogue"} ->
         {[m EXCEPT !.pc = "ended"]}
    [] OTHER -> {}

(***************************************************************************)
(* Sessions                                                                *)
(***************************************************************************)
Line(marker, pairs) == [marker |-> marker, pairs |-> pairs]

\* Lines of the wide specification: noise, partial records, a pressure out
\* of range, and jumps of the temperature (inside its range) and of the
\* pressure (out of its range).
Lines ==
  { Line("", <<>>),
    Line("error=", <<>>),
    Line("info=", <<>>),
    Line("", << <<"rssi", 7>> >>),
    Line("", << <<"T", 20>> >>),
    Line("", << <<"t", 20>>, <<"p", 9999>> >>),
    Line("", << <<"temp", 21>> >>),
    Line("", << <<"t", 40>>, <<"h", 50>> >>),
    Line("", << <<"h", 50>>, <<"pres", 1000>>, <<"ALT", 650>> >>) }

\* Lines of the reset-policy specification: the temperature at two levels
\* more than the threshold apart, one inside the valid range and one outside
\* it, with a steady humidity in one of the two.
ResetLines ==
  { Line("", << <<"t", 60>>, <<"h", 50>> >>),
    Line("", << <<"t", 95>> >>) }

Dts         == {0, 5}
PlotDelays  == {0, 1}

NoCall == [name |-> "none", key |-> "temp", a |-> None, b |-> None, out |-> FALSE]

BuffersInit ==
  /\ clock = 3
  /\ t0 = clock
  /\ packet_count = 0
  /\ reset_count = 0
  /\ last_reset_time = 0
  /\ last_values = AllUnknown
  /\ anomaly_log = <<>>
  /\ sensor_error_state = [k \in Channels |-> FALSE]
  /\ out_of_range_count = [k \in Channels |-> 0]
  /\ t_data = <<>>
  /\ raw_data = [k \in Channels |-> <<>>]
  /\ t_clean = <<>>
  /\ clean_data = [k \in Channels |-> <<>>]
  /\ stats = [k \in Channels |-> EmptyStats]
  /\ stats_clean = [k \in Channels |-> EmptyStats]
  /\ csv_rows = <<>>
  /\ txt_anomaly = ""
  /\ dtr_log = <<>>
  /\ input_flushes = 0
  /\ tick = NoTick
  /\ lora = LoraInit

\* The state once bme280_dashboard has reached plt.show().
DashInit == BuffersInit /\ main \in Running("bme280_dashboard")

Init == DashInit /\ fn = NoCall

\* The drawing code takes no time here; the reset-policy specification lets
\* it take some.
Next ==
  \E line \in Lines, dt \in Dts :
    update(line, dt, {0}, MaxPackets, MaxElapsed) /\ UNCHANGED <<fn, lora, main>>

Spec == Init /\ [][Next]_vars

ResetNext ==
  \E line \in ResetLines, dt \in Dts :
    update(line, dt, PlotDelays, MaxResetPackets, MaxResetElapsed) /\ UNCHANGED <<fn, lora, main>>

ResetSpec == Init /\ [][ResetNext]_vars

(***************************************************************************)
(* Bursts on the serial line of bme280_dashboard                           *)
(***************************************************************************)
\* Samples of one burst, and bursts of one session.
BurstSize == 10
MaxBursts == 2

\* The i-th sample of a burst: the temperature at 95 and at 60 in turn, each
\* more than the threshold away from the one before it, and the first one
\* from the steady 60 the session starts with.
BurstSample(i) ==
  IF i % 2 = 1 THEN Line("", << <<"t", 95>> >>)
  ELSE Line("", << <<"t", 60>>, <<"h", 50>> >>)

\* One call of update() dt seconds after the previous one, on a port with
\* main.pending in its input buffer: ser.readline() returns the oldest line
\* of the buffer, or nothing when the buffer is still empty at the timeout.
\* The samples of a burst are all in within a second of the first one, so
\* those still on their way when that second is over are in the buffer
\* before the read.  ser.reset_input_buffer(), which reset_arduino() calls
\* two seconds after the DTR pulse, discards what is in the buffer then:
\* the lines not read and the rest of the burst, which has come in during
\* the sleep.  main.discarded counts the lines it discarded.
update_on_port(dt, delays, max_packets, max_elapsed) ==
  LET late    == IF clock + dt > main.burst_start + 1
                 THEN [i \in 1..(BurstSize - main.arrived) |->
                         BurstSample(main.arrived + i)]
                 ELSE <<>>
      waiting == main.pending \o late
      line    == IF waiting = <<>> THEN Line("", <<>>) ELSE Head(waiting)
      left    == IF waiting = <<>> THEN <<>> ELSE Tail(waiting)
  IN  /\ update(line, dt, delays, max_packets, max_elapsed)
      /\ main' = IF input_flushes' # input_flushes
                 THEN [main EXCEPT
                         !.pending = <<>>, !.arrived = BurstSize,
                         !.discarded = @ + Len(left)
                                         + (BurstSize - main.arrived - Len(late))]
                 ELSE [main EXCEPT !.pending = left, !.arrived = @ + Len(late)]
      /\ UNCHANGED <<fn, lora>>

\* Samples come in on the serial line: the rest of the burst under way,
\* within a second of its first sample, or the first sample of a new burst
\* once the burst before it is all in and nothing of it waits.  main.starts
\* keeps what reset_count and the length of anomaly_log were when each
\* burst began.
SampleArrives ==
  /\ \/ /\ main.arrived < BurstSize /\ clock <= main.burst_start + 1
        /\ main' = [main EXCEPT
                      !.pending = @ \o [i \in 1..(BurstSize - main.arrived) |->
                                          BurstSample(main.arrived + i)],
                      !.arrived = BurstSize]
     \/ /\ main.arrived = BurstSize /\ main.pending = <<>>
        /\ Len(main.starts) < MaxBursts
        /\ main' = [main EXCEPT
                      !.pending = <<BurstSample(1)>>, !.arrived = 1,
                      !.burst_start = clock,
                      !.starts = Append(@, [resets |-> reset_count,
                                            logged |-> Len(anomaly_log)])]
  /\ UNCHANGED <<dvars, fn, lora>>

\* FuncAnimation calls update() every 100 ms (interval=100), so a line that
\* waits is read at once; time passes while readline() waits at an empty
\* buffer.
BurstNext ==
  \/ SampleArrives
  \/ \E dt \in IF main.pending = <<>> THEN Dts ELSE {0} :
       update_on_port(dt, PlotDelays, MaxBursts * BurstSize + 1,
                      MaxBursts * (MIN_RESET_INTERVAL + RESET_SLEEP + 1))

\* bme280_dashboard inside plt.show() with one steady sample in the input
\* buffer of the port and no burst under way.
BurstInit ==
  /\ BuffersInit /\ fn = NoCall
  /\ \E m \in Running("bme280_dashboard") :
       main = [script |-> m.script, pc |-> m.pc, ser_is_open |-> m.ser_is_open,
               csv_open |-> m.csv_open, raised |-> m.raised,
               csv_writable |-> m.csv_writable, maxlen |-> m.maxlen,
               pending |-> <<Line("", << <<"t", 60>>, <<"h", 50>> >>)>>,
               arrived |-> BurstSize, burst_start |-> 0, starts |-> <<>>,
               discarded |-> 0]

BurstSpec == BurstInit /\ [][BurstNext]_vars

\* Records of one session of the recorder specification.
MaxCsvPackets == 3

\* Between two calls of update() CSV_FILE stops being writable (its directory
\* is removed, the disk fills up, another program locks the file) or becomes
\* writable again.
CsvFileChanges ==
  /\ main.pc = "show"
  /\ main' = [main EXCEPT !.csv_writable = ~ @]
  /\ UNCHANGED <<dvars, fn, lora>>

\* One second after the last call a line arrives: noise, a temperature in
\* its valid range or one outside it; or the file changes.
CsvNext ==
  \/ \E line \in { Line("", <<>>), Line("", << <<"t", 20>> >>),
                    Line("", << <<"t", 95>> >>) } :
       /\ update(line, 1, PlotDelays, MaxCsvPackets, MaxCsvPackets + 1)
       /\ UNCHANGED <<fn, lora, main>>
  \/ CsvFileChanges

CsvSpec == Init /\ [][CsvNext]_vars

(***************************************************************************)
(* The detectors called on their own                                       *)
(***************************************************************************)
\* Arguments are taken within Spread of the thresholds and range limits.
Spread == 1

Landmarks ==
  {0} \cup {ANOMALY_THRESHOLDS[k] : k \in Channels}
      \cup {VALID_RANGES[k][1] : k \in Channels}
      \cup {VALID_RANGES[k][2] : k \in Channels}

ArgValues ==
  {None, NaN, PosInf, NegInf}
    \cup {Num(c + e) : c \in Landmarks, e \in (-Spread)..Spread}

Args == [name : {"args"}, key : Channels, a : ArgValues, b : ArgValues, out : {FALSE}]

CallCheckAnomaly ==
  /\ fn.name = "args"
  /\ fn' = [fn EXCEPT !.name = "check_anomaly",
                      !.out = check_anomaly(fn.key, fn.a, fn.b).is_anomaly]
  /\ UNCHANGED <<dvars, lora, main>>

CallIsValueInValidRange ==
  /\ fn.name = "args"
  /\ fn' = [fn EXCEPT !.name = "is_value_in_valid_range",
                      !.out = is_value_in_valid_range(fn.key, fn.a)]
  /\ UNCHANGED <<dvars, lora, main>>

CallIsValueValid ==
  /\ fn.name = "args"
  /\ fn' = [fn EXCEPT !.name = "is_value_valid", !.out = is_value_valid(fn.key, fn.a)]
  /\ UNCHANGED <<dvars, lora, main>>

PureInit == DashInit /\ fn \in Args

PureNext == CallCheckAnomaly \/ CallIsValueInValidRange \/ CallIsValueValid

PureSpec == PureInit /\ [][PureNext]_vars

\* The anomaly detector on its own, or a session of the dashboard.
UnknownInit == DashInit /\ fn \in Args \cup {NoCall}

UnknownNext == CallCheckAnomaly \/ (fn = NoCall /\ ResetNext)

UnknownSpec == UnknownInit /\ [][UnknownNext]_vars

(***************************************************************************)
(* Sessions of lora_dashboard                                              *)
(***************************************************************************)
\* Lines read from the receiver in one session of the LoRa specification.
MaxLoraLines == 5

LoraLine(kind, v, fields) == [kind |-> kind, v |-> v, fields |-> fields]

\* "RSSI: -34", "RSSI: -90", "SNR: 10", a primary record, a primary record
\* whose temperature is "nan", a primary record with a malformed
\* temperature, and a secondary record.
LoraLines ==
  { LoraLine("RSSI", Num(-34), <<>>),
    LoraLine("RSSI", Num(-90), <<>>),
    LoraLine("SNR", Num(10), <<>>),
    LoraLine("CANSAT", None,
             <<Num(1), Num(20), Num(900), Num(600), Num(50), Num(0)>>),
    LoraLine("CANSAT", None,
             <<Num(2), NaN, Num(900), Num(600), Num(50), Num(0)>>),
    LoraLine("CANSAT", None,
             <<Num(1), Bad, Num(900), Num(600), Num(50), Num(0)>>),
    LoraLine("CANSAT_SEC", None,
             <<Num(1), Num(0), Num(1), Num(0), Num(0), Num(0), Num(0), Num(0),
               Num(1), Num(0), Num(0), Num(0)>>) }

\* What ser.in_waiting lets one call of update() read: one line or two.
LoraBatches ==
  {<<a>> : a \in LoraLines} \cup {<<a, b>> : a \in LoraLines, b \in LoraLines}

\* update(_frame) of lora_dashboard, with `lines` waiting in the serial
\* buffer dt seconds after the previous call.
lora_update(lines, dt) ==
  LET now  == clock + dt - t0
      read == SubSeq(lines, 1, lora_lines_read(lines, 0))
      raws == SelectSeq(read, LAMBDA l : l.kind # "")
  IN  /\ Len(lora.seen) + Len(lines) <= MaxLoraLines
      /\ clock' = clock + dt
      /\ lora' = [lora_drain(lora, raws, now) EXCEPT !.batch = read]
      /\ UNCHANGED <<t0, packet_count, reset_count, last_reset_time,
                     last_values, anomaly_log, sensor_error_state,
                     out_of_range_count, t_data, raw_data, t_clean, clean_data,
                     stats, stats_clean, csv_rows, txt_anomaly, dtr_log,
                     input_flushes, tick, fn, main>>

\* A call of update() comes one second after the one before.
LoraNext == \E lines \in LoraBatches : lora_update(lines, 1)

LoraSpec == Init /\ [][LoraNext]_vars

\* Between two calls of update() the CSV file of lora_dashboard stops being
\* writable or becomes writable again.
LoraCsvFileChanges ==
  /\ lora' = [lora EXCEPT !.csv_writable = ~ @]
  /\ UNCHANGED <<dvars, fn, main>>

LoraCsvNext == LoraNext \/ LoraCsvFileChanges

LoraCsvSpec == Init /\ [][LoraCsvNext]_vars

(***************************************************************************)
(* The session of the end-to-end scenario                                  *)
(***************************************************************************)
\* The temperatures 20.0, 21.0, 95.0 and 21.5 of the scenario, in whole
\* degrees: 22 stands for 21.5 (half a degree from 21, 73 from 95).
ScenarioReadings == <<20, 21, 95, 22>>

\* The next reading of the scenario arrives dt seconds after the last call.
ScenarioNext ==
  \E dt \in {0, 2, 5} :
    /\ packet_count < Len(ScenarioReadings)
    /\ update(Line("", << <<"t", ScenarioReadings[packet_count + 1]>> >>), dt,
              PlotDelays, Len(ScenarioReadings), MaxResetElapsed)
    /\ UNCHANGED <<fn, lora, main>>

\* The deques of the scenario hold all of its readings, as the 120 places
\* of the program's do.
ScenarioInit ==
  /\ BuffersInit /\ fn = NoCall
  /\ main \in {[m EXCEPT !.maxlen = Len(ScenarioReadings)] :
                  m \in Running("bme280_dashboard")}

ScenarioSpec == ScenarioInit /\ [][ScenarioNext]_vars

(***************************************************************************)
(* The life of a dashboard process                                         *)
(***************************************************************************)
Scripts == GuardedScripts \cup {"bmp280_dashboard", "lora_dashboard"}

\* FuncAnimation calls update() while plt.show() runs.
MainTick ==
  /\ main.pc = "show"
  /\ \/ main.script = "bme280_dashboard" /\ ScenarioNext
     \/ main.script = "lora_dashboard" /\ LoraNext

\* One statement after plt.show(), or of the finally clause.
AfterShow ==
  /\ main' \in after_show(main)
  /\ UNCHANGED <<dvars, fn, lora>>

MainInit == BuffersInit /\ fn = NoCall /\ main \in UNION {Running(s) : s \in Scripts}

MainNext ==
  \/ MainTick
  \/ ShowReturns /\ UNCHANGED <<dvars, fn, lora>>
  \/ ShowRaises /\ UNCHANGED <<dvars, fn, lora>>
  \/ AfterShow

MainSpec == MainInit /\ [][MainNext]_vars

(***************************************************************************)
(* parse_line called on its own                                            *)
(***************************************************************************)
\* Most key=value pairs on one line.
MaxPairs == 3

\* Keys of the pairs: aliases of the temperature in several spellings, an
\* alias of the humidity, of the pressure and of the altitude, and two keys
\* that are no alias of anything.  The values are 1 and 2.
PairKeys == {"T", "t", "Temp", "temperature", "H", "pres", "ALT", "rssi", "tmp"}

RECURSIVE PairSeqs(_)
PairSeqs(n) ==
  IF n = 0 THEN {<<>>}
  ELSE PairSeqs(n - 1)
         \cup {Append(s, <<k, v>>) : s \in {q \in PairSeqs(n - 1) : Len(q) = n - 1},
                                     k \in PairKeys, v \in {1, 2}}

CallParseLine ==
  /\ fn.name = "pairs"
  /\ \E d \in parse_line(fn.pairs) :
       fn' = [name |-> "parse_line", pairs |-> fn.pairs, out |-> d]
  /\ UNCHANGED <<dvars, lora, main>>

AliasInit ==
  /\ DashInit
  /\ fn \in [name : {"pairs"}, pairs : PairSeqs(MaxPairs) \ {<<>>}]

AliasSpec == AliasInit /\ [][CallParseLine]_vars

(***************************************************************************)
(* Sessions that go on after the resets are spent                          *)
(***************************************************************************)
\* Telemetry records accepted in one session of the baseline specification:
\* three times a level and a jump, then a level, a spike and the way back.
MaxBaselinePackets == 9

\* Every line arrives MIN_RESET_INTERVAL seconds after the one before, so
\* that no reset is held back by the interval.
BaselineNext ==
  \E line \in ResetLines, dt \in {MIN_RESET_INTERVAL} :
    /\ update(line, dt, PlotDelays, MaxBaselinePackets,
              MaxBaselinePackets * (MIN_RESET_INTERVAL + RESET_SLEEP + 1))
    /\ UNCHANGED <<fn, lora, main>>

BaselineSpec == Init /\ [][BaselineNext]_vars

(***************************************************************************)
(* Sessions with a sensor stuck out of its range                           *)
(***************************************************************************)
\* Telemetry records accepted in one session of the status specification:
\* CONSECUTIVE_ERRORS_FOR_ALERT readings out of range and one more.
MaxStatusPackets == 6

\* A line arrives one second after the one before: a temperature above its
\* range, steady or jumping further up, with a humidity in its range at two
\* levels more than the threshold apart.
StatusNext ==
  \E line \in { Line("", << <<"t", 95>>, <<"h", 50>> >>),
                Line("", << <<"t", 95>>, <<"h", 90>> >>),
                Line("", << <<"t", 120>> >>) },
     dt \in {1} :
    /\ update(line, dt, PlotDelays, MaxStatusPackets,
              MaxStatusPackets * (RESET_SLEEP + 2))
    /\ UNCHANGED <<fn, lora, main>>

StatusSpec == Init /\ [][StatusNext]_vars

(***************************************************************************)
(* Sessions in which a channel is absent while its streak is running       *)
(***************************************************************************)
\* Telemetry records accepted in one session of the streak specification
\* (a persistent pressure error and two anomalies after it need eight).
MaxStreakPackets == 8

\* One second after the last call a line arrives: the pressure out of its
\* valid range or back in it, with a steady temperature, or a record without
\* pressure whose temperature is more than the threshold away.
StreakNext ==
  \E line \in { Line("", << <<"t", 20>>, <<"p", 9999>> >>),
                 Line("", << <<"t", 20>>, <<"p", 1000>> >>),
                 Line("", << <<"t", 40>> >>) } :
    /\ update(line, 1, PlotDelays, MaxStreakPackets,
              MaxStreakPackets * (RESET_SLEEP + 2))
    /\ UNCHANGED <<fn, lora, main>>

StreakSpec == Init /\ [][StreakNext]_vars

(***************************************************************************)
(* update_stats called on its own                                          *)
(***************************************************************************)
\* Calls of update_stats in one session of the statistics specification.
MaxStatCalls == 4

\* Values handed to update_stats: unknown, not a number, infinite, below
\* zero, zero and above zero.
StatValues == {None, NaN, PosInf, Num(-5), Num(0), Num(20)}

\* Calls that were given a number so far.
StatCalls ==
  stats["temp"].count + stats["hum"].count + stats["pres"].count + stats["alt"].count

CallUpdateStats ==
  \E key \in Channels, value \in StatValues :
    /\ StatCalls < MaxStatCalls
    /\ stats' = update_stats(stats, key, value)
    /\ fn' = [name |-> "update_stats", key |-> key, a |-> value, b |-> None,
              out |-> FALSE]
    /\ UNCHANGED <<clock, t0, packet_count, reset_count, last_reset_time,
                   last_values, anomaly_log, sensor_error_state,
                   out_of_range_count, t_data, raw_data, t_clean, clean_data,
                   stats_clean, csv_rows, txt_anomaly, dtr_log, input_flushes,
                   tick, lora, main>>

StatsSpec == Init /\ [][CallUpdateStats]_vars

(***************************************************************************)
(* Parsers of positional records, called on their own                      *)
(***************************************************************************)
\* bmp280_dashboard.parse_line on "CANSAT,<fields>": parts[0] is "CANSAT" and
\* parts[i] is fields[i].  The three assignments to out are made one after
\* the other inside one try, and out is returned whatever was assigned; an
\* assignment fails when float() raises, which it does not on nan or inf.
bmp280_parse_line(fields) ==
  IF Len(fields) + 1 < 5 THEN <<>>
  ELSE IF ~ IsFloat(fields[2]) THEN <<>>
  ELSE IF ~ IsFloat(fields[3]) THEN [k \in {"temp"} |-> fields[2]]
  ELSE IF ~ IsFloat(fields[4])
       THEN [k \in {"temp", "pres"} |-> IF k = "temp" THEN fields[2] ELSE fields[3]]
  ELSE [k \in {"temp", "pres", "alt"} |->
          CASE k = "temp" -> fields[2]
            [] k = "pres" -> fields[3]
            [] k = "alt"  -> fields[4]]

\* Keys of the pairs of a "terrain=" line, in the order the modelled
\* firmware sends them.
TerrainKeys == <<"sky", "cloud", "veg", "dryveg", "soil", "water", "smoke">>

\* ov7670_dashboard.parse_terrain_line on "terrain=k1:v1,k2:v2,...": a pair
\* whose value float() rejects is passed over, the others are kept (nan and
\* the infinities among them).
parse_terrain_line(fields) ==
  LET good == {i \in 1..Len(fields) : IsFloat(fields[i])}
  IN  [k \in {TerrainKeys[i] : i \in good} |->
         fields[CHOOSE i \in good : TerrainKeys[i] = k]]

\* Longest record, in fields after the leading word.
MaxFields == 7

\* Records of up to n fields.  The texts of a field: "1", "nan", "inf" and
\* one float() rejects.
RECURSIVE FieldSeqs(_)
FieldSeqs(n) ==
  IF n = 0 THEN {<<>>}
  ELSE FieldSeqs(n - 1)
         \cup {Append(s, x) : s \in {q \in FieldSeqs(n - 1) : Len(q) = n - 1},
                              x \in {Num(1), NaN, PosInf, Bad}}

ParseArgs == [name : {"line"}, fields : {s \in FieldSeqs(MaxFields) : Len(s) >= 3}]

CallBmp280ParseLine ==
  /\ fn.name = "line"
  /\ fn' = [name |-> "bmp280_dashboard.parse_line", fields |-> fn.fields,
            out |-> bmp280_parse_line(fn.fields)]
  /\ UNCHANGED <<dvars, lora, main>>

CallLoraProcessLine ==
  /\ fn.name = "line"
  /\ fn' = [name |-> "lora_dashboard.process_line", fields |-> fn.fields,
            out |-> process_line_cansat(fn.fields, None, None)]
  /\ UNCHANGED <<dvars, lora, main>>

CallParseTerrainLine ==
  /\ fn.name = "line"
  /\ fn' = [name |-> "ov7670_dashboard.parse_terrain_line", fields |-> fn.fields,
            out |-> parse_terrain_line(fn.fields)]
  /\ UNCHANGED <<dvars, lora, main>>

ParseInit == DashInit /\ fn \in ParseArgs

ParseNext == CallBmp280ParseLine \/ CallLoraProcessLine \/ CallParseTerrainLine

ParseSpec == ParseInit /\ [][ParseNext]_vars

(***************************************************************************)
(* Sessions of bmp280_dashboard                                            *)
(***************************************************************************)
\* bmp280_dashboard keeps the tables of bme280_dashboard without a humidity
\* channel; the hum entries of the tables stand for nothing in its sessions.
Bmp280Channels == {"temp", "pres", "alt"}

\* A line of the serial stream: kind is "" for an empty line, "error=" and
\* "info=" for a line that holds that text, "RSSI" and "SNR" for a line one
\* of the RSSI and SNR patterns matches (fields holds what float() makes of
\* the text matched by [-+]?[\d.]+, which "." and "1.2.3" also match),
\* "CANSAT" for a line that holds "CANSAT," (fields are the fields after
\* it), "kv" for a line of key=value pairs (fields are the pairs) and
\* "text" for any other line.
Bmp280Line(kind, fields) == [kind |-> kind, fields |-> fields]

\* The records parse_line of bmp280_dashboard can return for a line that is
\* not an RSSI or SNR line: the CANSAT record, or the key=value pairs
\* mapped through KEYMAP, which has no humidity in this script.
bmp280_record(line) ==
  IF line.kind = "CANSAT" THEN {bmp280_parse_line(line.fields)}
  ELSE IF line.kind = "kv"
  THEN {[k \in DOMAIN d \cap Bmp280Channels |-> d[k]] : d \in parse_line(line.fields)}
  ELSE {<<>>}

\* while ser.in_waiting > 0 and lines_read < 20: every turn reads a line and
\* counts it, whatever the line holds.
bmp280_lines_read(pending) ==
  IF Len(pending) > LINES_PER_TICK THEN LINES_PER_TICK ELSE Len(pending)

\* The body of the while loop over the lines waiting for one call: d is the
\* last record that parsed to something, parsed are all of them in order,
\* shown is what the status text is left as and read counts the calls of
\* readline().  An RSSI or SNR line is stored in current_rssi or
\* current_snr; when float() rejects its text the ValueError leaves
\* parse_line and update(), and the lines behind it stay in the serial
\* buffer.
RECURSIVE bmp280_drain(_, _)
bmp280_drain(lines, acc) ==
  IF lines = <<>> THEN {acc}
  ELSE LET l  == Head(lines)
           a1 == [acc EXCEPT !.read = @ + 1]
       IN  IF l.kind = "" \/ l.kind = "error=" THEN bmp280_drain(Tail(lines), a1)
           ELSE IF l.kind = "info="
           THEN bmp280_drain(Tail(lines), [a1 EXCEPT !.shown = ""])
           ELSE IF l.kind \in {"RSSI", "SNR"}
           THEN IF ~ IsFloat(l.fields[1]) THEN {[a1 EXCEPT !.raised = TRUE]}
                ELSE bmp280_drain(Tail(lines),
                       IF l.kind = "RSSI"
                       THEN [a1 EXCEPT !.current_rssi = l.fields[1]]
                       ELSE [a1 EXCEPT !.current_snr = l.fields[1]])
           ELSE UNION { bmp280_drain(Tail(lines),
                          IF DOMAIN d # {}
                          THEN [a1 EXCEPT !.d = d, !.parsed = Append(@, d)]
                          ELSE a1) : d \in bmp280_record(l) }

\* Telemetry records folded in one session of the bmp280 specification.
MaxBmp280Packets == 3

\* update(_frame) of bmp280_dashboard dt seconds after the previous call,
\* `arrived` having come into the serial buffer since then, behind the lines
\* the previous call left there (main.pending).  fn keeps the records the
\* call parsed and the one it folded into the tables.  The lines the call
\* did not read wait for the next one, unless the call reset the Arduino:
\* ser.reset_input_buffer() in reset_arduino() discards them.  A
\* call that raises has changed the status text and the stored RSSI and SNR
\* only; whether the timer calls update() again after it is up to the
\* backend of matplotlib, and the sessions of the model go on.
bmp280_update(arrived, dt, delays, max_packets, max_elapsed) ==
  LET current_time == clock + dt
      waiting == main.pending \o arrived
      capped  == SubSeq(waiting, 1, bmp280_lines_read(waiting))
  IN  /\ current_time - t0 <= max_elapsed
      /\ \E r \in bmp280_drain(capped,
                    [d |-> <<>>, parsed |-> <<>>, shown |-> txt_anomaly,
                     read |-> 0, raised |-> FALSE,
                     current_rssi |-> main.current_rssi,
                     current_snr |-> main.current_snr]) :
           /\ fn' = [name |-> "bmp280_dashboard.update", parsed |-> r.parsed,
                     out |-> IF r.raised THEN <<>> ELSE r.d, raised |-> r.raised]
           /\ IF r.raised \/ DOMAIN r.d = {}
              THEN /\ clock' = current_time
                   /\ txt_anomaly' = r.shown
                   /\ tick' = [NoTick EXCEPT
                                 !.kind = IF r.raised THEN "raised" ELSE "dropped",
                                 !.current_time = current_time]
                   /\ UNCHANGED <<t0, packet_count, reset_count, last_reset_time,
                                  last_values, anomaly_log, sensor_error_state,
                                  out_of_range_count, t_data, raw_data, t_clean,
                                  clean_data, stats, stats_clean, csv_rows,
                                  dtr_log, input_flushes>>
              ELSE /\ packet_count < max_packets
                   /\ IngestOn(Bmp280Channels, r.shown, r.d, current_time, delays)
           /\ main' = [main EXCEPT
                         !.pending = IF input_flushes' # input_flushes THEN <<>>
                                     ELSE SubSeq(waiting, r.read + 1, Len(waiting)),
                         !.current_rssi = r.current_rssi,
                         !.current_snr = r.current_snr]

\* Noise, "CANSAT,1,20,900,650,0,0", the same with the temperature at 40, a
\* record cut short, "CANSAT,1,nan,900,inf", "t=20 P=9999" (a pressure out
\* of range), "RSSI: -34" and "RSSI: ." (which float() rejects).
Bmp280Lines ==
  { Bmp280Line("", <<>>),
    Bmp280Line("info=", <<>>),
    Bmp280Line("CANSAT", <<Num(1), Num(20), Num(900), Num(650), Num(0), Num(0)>>),
    Bmp280Line("CANSAT", <<Num(1), Num(40), Num(900), Num(650), Num(0), Num(0)>>),
    Bmp280Line("CANSAT", <<Num(1), Num(20)>>),
    Bmp280Line("CANSAT", <<Num(1), NaN, Num(900), PosInf>>),
    Bmp280Line("kv", << <<"t", 20>>, <<"P", 9999>> >>),
    Bmp280Line("RSSI", <<Num(-34)>>),
    Bmp280Line("RSSI", <<Bad>>) }

\* The script inside plt.show(), with nothing waiting in the serial buffer
\* and no RSSI or SNR line read so far.
Bmp280Init ==
  /\ BuffersInit /\ fn = NoCall
  /\ \E m \in Running("bmp280_dashboard") :
       main = [script |-> m.script, pc |-> m.pc, ser_is_open |-> m.ser_is_open,
               csv_open |-> m.csv_open, raised |-> m.raised,
               csv_writable |-> m.csv_writable, maxlen |-> m.maxlen,
               pending |-> <<>>,
               current_rssi |-> None, current_snr |-> None]

\* Every five seconds ser.in_waiting lets update() read what arrived: one
\* line or two, or more lines than one call reads, the last two of them the
\* record with the temperature at 40 and the one with it at 20.
Bmp280Next ==
  \E arrived \in {<<a>> : a \in Bmp280Lines}
                   \cup {<<a, b>> : a \in Bmp280Lines, b \in Bmp280Lines}
                   \cup {[i \in 1..(LINES_PER_TICK + 1) |->
                           IF i < LINES_PER_TICK THEN Bmp280Line("", <<>>)
                           ELSE Bmp280Line("CANSAT",
                                  <<Num(1), Num(IF i = LINES_PER_TICK THEN 40 ELSE 20),
                                    Num(900), Num(650), Num(0), Num(0)>>)]} :
    /\ bmp280_update(arrived, MIN_RESET_INTERVAL, PlotDelays, MaxBmp280Packets,
                     MaxBmp280Packets * (MIN_RESET_INTERVAL + RESET_SLEEP + 1))
    /\ UNCHANGED lora

Bmp280Spec == Bmp280Init /\ [][Bmp280Next]_vars

(***************************************************************************)
(* The loops that drain the serial buffer, run on their own                *)
(***************************************************************************)
\* Most lines waiting in the serial buffer when update() is called.
MaxPending == 22

\* Buffers of "RSSI: -34" lines with empty lines in none of the places, in
\* the first, in every other one, or in all of them.
PendingLines(n, empty) ==
  [i \in 1..n |->
     IF \/ empty = "first" /\ i = 1
        \/ empty = "odd" /\ i % 2 = 1
        \/ empty = "all"
     THEN LoraLine("", None, <<>>)
     ELSE LoraLine("RSSI", Num(-34), <<>>)]

PendingArgs ==
  [name  : {"pending"},
   lines : {PendingLines(n, e) : n \in 0..MaxPending,
                                 e \in {"none", "first", "odd", "all"}},
   out   : {0}]

CallBmp280LinesRead ==
  /\ fn.name = "pending"
  /\ fn' = [fn EXCEPT !.name = "bmp280_dashboard.update",
                      !.out = bmp280_lines_read(fn.lines)]
  /\ UNCHANGED <<dvars, lora, main>>

CallLoraLinesRead ==
  /\ fn.name = "pending"
  /\ fn' = [fn EXCEPT !.name = "lora_dashboard.update",
                      !.out = lora_lines_read(fn.lines, 0)]
  /\ UNCHANGED <<dvars, lora, main>>

CallOv7670LinesRead ==
  /\ fn.name = "pending"
  /\ fn' = [fn EXCEPT !.name = "ov7670_dashboard.update",
                      !.out = ov7670_lines_read(fn.lines)]
  /\ UNCHANGED <<dvars, lora, main>>

DrainInit == DashInit /\ fn \in PendingArgs

DrainNext == CallBmp280LinesRead \/ CallLoraLinesRead \/ CallOv7670LinesRead

DrainSpec == DrainInit /\ [][DrainNext]_vars

(***************************************************************************)
(* interpretador: update and its counters                                  *)
(***************************************************************************)
\* Telemetry records accepted in one session of the interpretador
\* specification: one more than the clean window holds, and a filtered one.
MaxInterpPackets == 5

\* interpretador.KEYMAP: the four channels and the GPS.
INTERP_KEYMAP ==
  [k \in Channels \cup {"lat", "lon"} |->
     CASE k = "lat" -> {"lat", "latitude"}
       [] k = "lon" -> {"lon", "lng", "long", "longitude"}
       [] OTHER     -> KEYMAP[k]]

\* interpretador.parse_line: the same parser over the six standard keys.
interp_parse_line(pairs) ==
  LET raw     == RawDict(pairs)
      present == {c \in DOMAIN INTERP_KEYMAP :
                    INTERP_KEYMAP[c] \cap DOMAIN raw # {}}
  IN  {d \in [present -> {raw[a] : a \in DOMAIN raw}] :
         \A c \in present :
           \E a \in INTERP_KEYMAP[c] \cap DOMAIN raw : d[c] = raw[a]}

\* A record that fails the filter counted as valid all the same.
interp_counts_always_valid(m, all_valid) ==
  [m EXCEPT !.valid_count = @ + 1]

\* valid_count += 1 or invalid_count += 1.
interp_counts(m, all_valid) ==
  IF all_valid THEN [m EXCEPT !.valid_count = @ + 1]
  ELSE [m EXCEPT !.invalid_count = @ + 1]

\* The body of interpretador.update from "packet_count += 1" on.  push_raw
\* appends the reading, or the last item again, or NaN.  The speed appended
\* is haversine_m over the time since the previous fix, kept as the two fixes
\* and the time between them, or NaN; the clock of the model counts whole
\* seconds, so a positive difference is more than the 0.05 s the code asks
\* for.  The calls of set_line that follow write to the figures only.
interp_ingest(m, d, now) ==
  LET push_raw(buf, key) ==
        deque_append(buf, IF key \in DOMAIN d THEN d[key]
                          ELSE IF Len(buf) > 0 THEN buf[Len(buf)] ELSE NaN)
      all_valid == \A k \in Channels \cap DOMAIN d : is_value_valid(k, d[k])
      gps == {"lat", "lon"} \subseteq DOMAIN d
      v  == IF gps /\ ~ IsNone(m.last_gps.lat) /\ ~ IsNone(m.last_gps.lon)
                   /\ ~ IsNone(m.last_gps.time)
                   /\ now - m.last_gps.time.v > 0
            THEN [tag |-> "Speed", from |-> <<m.last_gps.lat, m.last_gps.lon>>,
                  to |-> <<d["lat"], d["lon"]>>,
                  dt |-> now - m.last_gps.time.v]
            ELSE NaN
      m1 == [m EXCEPT
               !.packet_count = @ + 1,
               !.t_raw = deque_append(@, now),
               !.raw = [k \in DOMAIN INTERP_KEYMAP |-> push_raw(@[k], k)],
               !.seen = Append(@, [d |-> d, now |-> now])]
      m2 == interp_counts(m1, all_valid)
      m3 == IF all_valid
            THEN [m2 EXCEPT
                    !.t_clean = deque_append(@, now),
                    !.clean = [k \in Channels |->
                                 IF k \in DOMAIN d
                                 THEN deque_append(@[k], d[k]) ELSE @[k]]]
            ELSE m2
  IN  [m3 EXCEPT
         !.speed = deque_append(@, v),
         !.last_gps = IF gps
                      THEN [lat |-> d["lat"], lon |-> d["lon"],
                            time |-> Num(now)]
                      ELSE @]

\* One call of interpretador.update: ser.readline() returns `line` after dt
\* seconds, or raises (marker "raises").  An empty line, a line with info=,
\* error= or warning=, and a line without a known key leave the state alone.
interp_update(line, dt, max_packets, max_elapsed) ==
  LET current_time == clock + dt
      now          == current_time - t0
  IN  /\ main.script = "interpretador"
      /\ now <= max_elapsed
      /\ clock' = current_time
      /\ IF line.marker # "" \/ line.pairs = <<>>
         THEN main' = main
         ELSE \E d \in interp_parse_line(line.pairs) :
                IF DOMAIN d = {}
                THEN main' = main
                ELSE /\ main.packet_count < max_packets
                     /\ main' = interp_ingest(main, d, now)
      /\ UNCHANGED <<t0, packet_count, reset_count, last_reset_time,
                     last_values, anomaly_log, sensor_error_state,
                     out_of_range_count, t_data, raw_data, t_clean, clean_data,
                     stats, stats_clean, csv_rows, txt_anomaly, dtr_log,
                     input_flushes, tick, fn, lora>>

\* interpretador inside plt.show(), after its module body has run; seen is
\* every record update() has parsed, with the time it was given.
InterpInit ==
  /\ BuffersInit /\ fn = NoCall
  /\ main =
       [script |-> "interpretador", pc |-> "show", ser_is_open |-> TRUE,
        csv_open |-> FALSE, raised |-> FALSE, maxlen |-> WINDOW,
        packet_count |-> 0, valid_count |-> 0, invalid_count |-> 0,
        t_raw |-> <<>>, raw |-> [k \in DOMAIN INTERP_KEYMAP |-> <<>>],
        t_clean |-> <<>>, clean |-> [k \in Channels |-> <<>>],
        speed |-> <<>>,
        last_gps |-> [lat |-> None, lon |-> None, time |-> None],
        seen |-> <<>>]

\* One second after the last call a line arrives: noise, a partial record
\* that passes the filter, a record that fails it, a full record or a GPS fix.
InterpNext ==
  \E line \in { Line("", <<>>),
                 Line("raises", <<>>),
                 Line("warning=", << <<"t", 20>> >>),
                 Line("", << <<"rssi", 7>> >>),
                 Line("", << <<"t", 20>> >>),
                 Line("", << <<"t", 95>>, <<"h", 50>> >>),
                 Line("", << <<"t", 21>>, <<"h", 50>>, <<"p", 1000>>,
                             <<"alt", 650>> >>),
                 Line("", << <<"lat", 40>>, <<"lng", 3>> >>) } :
    interp_update(line, 1, MaxInterpPackets, MaxInterpPackets + 2)

InterpSpec == InterpInit /\ [][InterpNext]_vars

(***************************************************************************)
(* vegetation_fire_dashboard: update and the rows it records               *)
(***************************************************************************)
\* Calls of update() in one session of the vegetation specification.
MaxVegTicks == 3

\* A line "<prefix>=<content>", its content split at the commas: name is the
\* text parse_line keeps as it is (the type name of vegtype, the content of
\* ALERTA), head the percentage that opens a FIRE_PROB line and pairs are the
\* parts "key:value".  kind is "" for an empty line, "---" for the separator,
\* "text" for a line without "=" and "=" for the others.
VegLine(kind, prefix, name, head, pairs) ==
  [kind |-> kind, prefix |-> prefix, name |-> name, head |-> head,
   pairs |-> pairs]

\* {key: float(val)} over the pairs; a later pair overwrites an earlier one.
RECURSIVE VegDict(_)
VegDict(pairs) ==
  IF pairs = <<>> THEN <<>>
  ELSE LET n    == Len(pairs)
           rest == VegDict(SubSeq(pairs, 1, n - 1))
           k    == pairs[n][1]
       IN  [x \in (DOMAIN rest \ {k}) |-> rest[x]] @@ (k :> pairs[n][2])

\* vegetation_fire_dashboard.parse_line: type is data["type"] and data the
\* other entries of the dict it returns, or it raises when float() rejects a
\* value (float() accepts "nan" and "inf").  data["type"] is the prefix, as
\* text, until a pair named type overwrites it with a number; a line without
\* "=" gives the empty dict.  The head of a FIRE_PROB line is stored under
\* fire_prob before the pairs are, so a pair of that name overwrites it.
veg_parse_line(line) ==
  LET text(str)  == [tag |-> "Text", s |-> str]
      rejects(v) == v.tag = "Bad"
      pairs      == IF line.prefix = "FIRE_PROB"
                    THEN << <<"fire_prob", line.head>> >> \o line.pairs
                    ELSE line.pairs
      d          == VegDict(pairs)
      rest       == [k \in DOMAIN d \ {"type"} |-> d[k]]
      type       == IF "type" \in DOMAIN d THEN d["type"] ELSE text(line.prefix)
      bad        == \E i \in 1..Len(pairs) : rejects(pairs[i][2])
  IN  IF line.kind = "text" THEN [raises |-> FALSE, type |-> None, data |-> <<>>]
      ELSE IF line.prefix = "vegtype"
      THEN [raises |-> Len(pairs) > 0 /\ rejects(pairs[1][2]),
            type |-> text("vegtype"),
            data |-> ("vegtype" :> line.name)
                       @@ (IF Len(pairs) > 0
                           THEN "confidence" :> pairs[1][2] ELSE <<>>)]
      ELSE IF line.prefix = "vegtypes"
      THEN [raises |-> bad, type |-> text("vegtypes"),
            data |-> [k \in {"veg_" \o x : x \in DOMAIN d} |->
                        d[CHOOSE x \in DOMAIN d : "veg_" \o x = k]]]
      ELSE IF line.prefix \in {"vegindex", "vegstate", "FIRE_PROB", "fire_factors"}
      THEN [raises |-> bad, type |-> type, data |-> rest]
      ELSE IF line.prefix = "ALERTA"
      THEN [raises |-> FALSE, type |-> text("ALERTA"),
            data |-> ("alert" :> line.name)]
      ELSE [raises |-> FALSE, type |-> text(line.prefix), data |-> <<>>]

\* One turn of the while loop of update() for a line that parse_line
\* accepted: acc holds the state and frame_data.  veg_push is
\* "buf.append(parsed[key]) if key in parsed" and veg_frame is
\* "frame_data[name] = parsed[key] if key in parsed".
veg_apply(acc, p, t_now) ==
  LET m == acc.m
      f == acc.frame
      d == p.data
      is(name) == p.type = [tag |-> "Text", s |-> name]
      veg_push(buf, key, data) ==
        IF key \in DOMAIN data THEN deque_append(buf, data[key]) ELSE buf
      veg_frame(frame, name, key, data) ==
        IF key \in DOMAIN data
        THEN [x \in (DOMAIN frame \ {name}) |-> frame[x]] @@ (name :> data[key])
        ELSE frame
  IN  CASE is("vegtype") ->
             [acc EXCEPT !.m = [m EXCEPT
                !.current_vegtype = d["vegtype"],
                !.current_confidence =
                   IF "confidence" \in DOMAIN d THEN d["confidence"] ELSE Num(0)]]
        [] is("vegtypes") ->
             [acc EXCEPT !.m = [m EXCEPT
                !.veg_distribution =
                   [k \in DOMAIN m.veg_distribution |->
                      IF ("veg_" \o k) \in DOMAIN d
                      THEN d["veg_" \o k] ELSE @[k]]]]
        [] is("vegindex") ->
             [acc EXCEPT !.m = [m EXCEPT
                !.exg_buffer = veg_push(@, "exg", d),
                !.vari_buffer = veg_push(@, "vari", d)]]
        [] is("vegstate") ->
             [acc EXCEPT
                !.m = [m EXCEPT
                  !.dryness_buffer = veg_push(@, "sequia", d),
                  !.stress_buffer = veg_push(@, "estres", d)],
                !.frame = veg_frame(veg_frame(veg_frame(veg_frame(f,
                          "dryness", "sequia", d), "stress", "estres", d),
                          "biomass", "biomasa", d), "continuity", "continuidad", d)]
        [] is("FIRE_PROB") ->
             [acc EXCEPT
                !.m = [m EXCEPT
                  !.current_fire_prob = d["fire_prob"],
                  !.fire_prob_buffer = deque_append(@, d["fire_prob"]),
                  !.time_buffer = deque_append(@, t_now),
                  !.spread_buffer = veg_push(@, "propagacion", d),
                  !.intensity_buffer = veg_push(@, "intensidad", d)],
                !.frame = veg_frame(veg_frame(f, "spread", "propagacion", d),
                                  "intensity", "intensidad", d)]
        [] is("fire_factors") ->
             [acc EXCEPT !.m = [m EXCEPT
                !.fire_factors =
                   [k \in DOMAIN m.fire_factors |->
                      IF k \in DOMAIN d THEN d[k] ELSE @[k]]]]
        [] is("ALERTA") ->
             [acc EXCEPT !.m = [m EXCEPT !.current_alert = d["alert"]]]
        [] OTHER -> acc

\* The while loop of update(): every waiting line is read; an empty line and
\* "---" are skipped, and a line parse_line raises on ends the call, with what
\* the lines before it wrote left in place and the lines after it left in the
\* serial buffer.  read counts the calls of readline().
RECURSIVE veg_drain(_, _, _)
veg_drain(acc, lines, t_now) ==
  IF lines = <<>> THEN acc
  ELSE LET acc1 == [acc EXCEPT !.read = @ + 1]
       IN  IF Head(lines).kind \in {"", "---"}
           THEN veg_drain(acc1, Tail(lines), t_now)
           ELSE LET p == veg_parse_line(Head(lines))
                IN  IF p.raises THEN [acc1 EXCEPT !.raised = TRUE]
                    ELSE veg_drain(veg_apply(acc1, p, t_now), Tail(lines), t_now)

\* update(_frame) of vegetation_fire_dashboard dt seconds after the previous
\* call, `lines` having arrived in the serial buffer since then, behind the
\* lines the previous call left there (pending).  fails_after is -1 while
\* the port works; otherwise ser.in_waiting raises once that many lines
\* were read in this call, and the except clause returns before the row is
\* written, as it does for a line parse_line raises on (which ends the call
\* before the port is asked again).  A port that failed (port_ok is FALSE)
\* fails at the first check of every later call.  The row is what
\* csv_writer.writerow is handed, without the wall-clock timestamp; get is
\* frame_data.get(name, 0).  rows are the rows in the file: when flush()
\* raises (csv_writable is FALSE) the error is passed over and the row does
\* not reach it.
veg_update(lines, dt, max_elapsed, fails_after) ==
  /\ main.script = "vegetation_fire_dashboard"
  /\ IF ~ main.ser_is_open
     THEN UNCHANGED <<clock, main>>
     ELSE LET current_time == clock + dt
              start == IF IsNone(main.t0) THEN current_time ELSE main.t0.v
              t_now == current_time - start
              waiting == main.pending \o lines
              m0    == [main EXCEPT !.t0 = Num(start)]
              offered == IF fails_after < 0 THEN waiting
                         ELSE SubSeq(waiting, 1, fails_after)
              drained == veg_drain([m |-> m0, frame |-> <<>>, raised |-> FALSE,
                                    read |-> 0], offered, t_now)
              acc   == IF fails_after < 0 THEN drained
                       ELSE [drained EXCEPT !.raised = TRUE]
              m     == [acc.m EXCEPT
                          !.port_ok = fails_after < 0 \/ drained.raised,
                          !.batch = SubSeq(waiting, 1, acc.read),
                          !.pending = SubSeq(waiting, acc.read + 1,
                                             Len(waiting))]
              get(name) == IF name \in DOMAIN acc.frame
                           THEN acc.frame[name] ELSE Num(0)
              row   ==
                [elapsed_s |-> t_now, vegtype |-> m.current_vegtype,
                 confidence |-> m.current_confidence,
                 fire_prob |-> m.current_fire_prob,
                 spread |-> get("spread"), intensity |-> get("intensity"),
                 dryness |-> get("dryness"), stress |-> get("stress"),
                 biomass |-> get("biomass"), continuity |-> get("continuity"),
                 exg |-> IF m.exg_buffer # <<>>
                         THEN m.exg_buffer[Len(m.exg_buffer)] ELSE Num(0),
                 vari |-> IF m.vari_buffer # <<>>
                          THEN m.vari_buffer[Len(m.vari_buffer)] ELSE Num(0),
                 alert |-> m.current_alert]
          IN  /\ t_now <= max_elapsed
              /\ clock' = current_time
              /\ fails_after <= Len(waiting)
              /\ main.port_ok \/ fails_after = 0
              /\ main' = IF /\ ~ acc.raised /\ m.fire_prob_buffer # <<>>
                            /\ m.csv_writable
                         THEN [m EXCEPT !.rows = Append(@, row)]
                         ELSE m
  /\ UNCHANGED <<t0, packet_count, reset_count, last_reset_time,
                 last_values, anomaly_log, sensor_error_state,
                 out_of_range_count, t_data, raw_data, t_clean, clean_data,
                 stats, stats_clean, csv_rows, txt_anomaly, dtr_log,
                 input_flushes, tick, fn, lora>>

\* The script inside plt.show(): ser is the open port, or None when no port
\* was found (ser_is_open FALSE); the CSV file holds its header, so it could
\* be written at start-up, and the port has not failed.  rows are the rows
\* written after the header, batch is what the latest call of update() read
\* and pending what it left in the serial buffer.
VegInit ==
  /\ BuffersInit /\ fn = NoCall
  /\ \E ser_is_open \in BOOLEAN :
       main =
         [script |-> "vegetation_fire_dashboard", pc |-> "show",
          ser_is_open |-> ser_is_open, csv_open |-> TRUE, raised |-> FALSE,
          csv_writable |-> TRUE, port_ok |-> TRUE, maxlen |-> WINDOW,
          t0 |-> None,
          time_buffer |-> <<>>, fire_prob_buffer |-> <<>>,
          spread_buffer |-> <<>>, intensity_buffer |-> <<>>,
          dryness_buffer |-> <<>>, stress_buffer |-> <<>>,
          exg_buffer |-> <<>>, vari_buffer |-> <<>>,
          current_vegtype |-> "MIXTA", current_confidence |-> Num(0),
          current_fire_prob |-> Num(0), current_alert |-> "",
          veg_distribution |->
            [k \in {"bosque_d", "bosque_a", "matorral", "pastizal", "cultivo",
                    "riparia", "estres", "seca", "sinveg"} |-> Num(0)],
          fire_factors |->
            [k \in {"f_vegtype", "f_sequia", "f_biomasa", "f_conti",
                    "f_estres"} |-> Num(0)],
          rows |-> <<>>, batch |-> <<>>, pending |-> <<>>]

\* Between two calls of update() the device that holds the CSV file fills
\* up: from then on flush() raises.
VegDeviceFills ==
  /\ main.script = "vegetation_fire_dashboard"
  /\ main.csv_writable
  /\ main' = [main EXCEPT !.csv_writable = FALSE]
  /\ UNCHANGED <<dvars, fn, lora>>

\* One second after the last call, ser.in_waiting lets update() read nothing,
\* one line or two, or raises at one of its checks.  The lines are the
\* separator, an Arduino message, two fire samples, a fire sample float()
\* rejects, and a vegetation state.
VegNext ==
  LET L == { VegLine("---", "", "", None, <<>>),
             VegLine("=", "info", "", None, <<>>),
             VegLine("=", "FIRE_PROB", "", Num(67),
                     << <<"propagacion", Num(72)>>,
                        <<"intensidad", Num(58)>> >>),
             VegLine("=", "FIRE_PROB", "", Num(10), <<>>),
             VegLine("=", "FIRE_PROB", "", Bad, <<>>),
             VegLine("=", "vegstate", "", None,
                     << <<"sequia", Num(45)>>, <<"estres", Num(32)>> >>) }
  IN  \/ \E lines \in {<<>>} \cup {<<a>> : a \in L}
                             \cup {<<a, b>> : a \in L, b \in L} :
           \E fails_after \in -1..(Len(lines) + 1) :
             /\ main.port_ok \/ lines = <<>>
             /\ veg_update(lines, 1, MaxVegTicks - 1, fails_after)
      \/ VegDeviceFills

VegSpec == VegInit /\ [][VegNext]_vars

(***************************************************************************)
(* bme280_collector.main: the connect, read and reconnect loops            *)
(***************************************************************************)
\* Connections opened and rows recorded in one session of the collector.
MaxConnects == 3
MaxRows     == 3

\* main() about to call init_csv(CSV_FILE).  connects counts the calls of
\* serial.Serial() that returned a port, init_csv_calls the calls of
\* init_csv, rows holds for every row of the CSV file the connection it was
\* read on, and returning says that a return statement is waiting for the
\* finally clause to end.
CollectorInit ==
  /\ BuffersInit /\ fn = NoCall
  /\ main =
      [script |-> "bme280_collector", pc |-> "init_csv", ser_is_open |-> FALSE,
       csv_open |-> FALSE, raised |-> FALSE, PORT |-> "None", connects |-> 0,
       init_csv_calls |-> 0, rows |-> <<>>, returning |-> FALSE,
       interrupted |-> FALSE]

CollectorGoes(m) == main' = m /\ UNCHANGED <<dvars, fn, lora>>

\* init_csv(CSV_FILE): the file is opened with mode "w" and gets its header,
\* or open() raises (the data directory is missing, the file is locked):
\* the call is outside every try of main(), so the exception ends the
\* collector before any port was looked for.
InitCsv ==
  /\ main.script = "bme280_collector" /\ main.pc = "init_csv"
  /\ \/ CollectorGoes([main EXCEPT !.pc = "detect", !.init_csv_calls = @ + 1,
                                   !.rows = <<>>])
     \/ CollectorGoes([main EXCEPT !.pc = "ended", !.init_csv_calls = @ + 1,
                                   !.raised = TRUE])

\* if PORT is None: PORT = find_arduino_port(); if PORT is None: sleep(5).
DetectPort ==
  /\ main.script = "bme280_collector" /\ main.pc = "detect"
  /\ IF main.PORT # "None" THEN CollectorGoes([main EXCEPT !.pc = "connect"])
     ELSE \/ CollectorGoes([main EXCEPT !.PORT = "COM5", !.pc = "connect"])
          \/ CollectorGoes([main EXCEPT !.pc = "retry_sleep"])

\* time.sleep(5) is over; continue.  After the sleep that follows a port
\* that could not be opened comes PORT = None, which forces a new detection;
\* where no port was found PORT is None already.
RetrySleep ==
  /\ main.script = "bme280_collector" /\ main.pc = "retry_sleep"
  /\ CollectorGoes([main EXCEPT !.pc = "detect", !.PORT = "None"])

\* ser = serial.Serial(PORT, BAUD, timeout=READ_TIMEOUT), or SerialException:
\* the handler prints and sleeps, PORT still holding the port that failed.
Connect ==
  /\ main.script = "bme280_collector" /\ main.pc = "connect"
  /\ \/ /\ main.connects < MaxConnects
        /\ CollectorGoes([main EXCEPT !.pc = "settle", !.ser_is_open = TRUE,
                                      !.connects = @ + 1])
     \/ CollectorGoes([main EXCEPT !.pc = "retry_sleep"])

\* time.sleep(2) after the port was opened.
Settle ==
  /\ main.script = "bme280_collector" /\ main.pc = "settle"
  /\ CollectorGoes([main EXCEPT !.pc = "read"])

\* The port is closed under the collector (the device went away).
PortDrops ==
  /\ main.script = "bme280_collector" /\ main.pc = "read" /\ main.ser_is_open
  /\ CollectorGoes([main EXCEPT !.ser_is_open = FALSE])

\* One turn of the inner loop that ends it: the port is found closed, or
\* readline() raises SerialException or OSError; break.
ReadFails ==
  /\ main.script = "bme280_collector" /\ main.pc = "read"
  /\ CollectorGoes([main EXCEPT !.pc = "finally"])

\* One turn that reads nothing, an error= or info= line, or a line without a
\* channel: continue.
ReadNoise ==
  /\ main.script = "bme280_collector" /\ main.pc = "read" /\ main.ser_is_open
  /\ CollectorGoes(main)

\* One turn that reads a sample: append_csv(CSV_FILE, data), which can raise
\* (the handler of Exception prints and falls into the finally clause).
ReadSample ==
  /\ main.script = "bme280_collector" /\ main.pc = "read" /\ main.ser_is_open
  /\ Len(main.rows) < MaxRows
  /\ \/ CollectorGoes([main EXCEPT !.rows = Append(@, main.connects)])
     \/ CollectorGoes([main EXCEPT !.pc = "finally"])

\* finally: if ser.is_open: ser.close(); then time.sleep(2).
Finally ==
  /\ main.script = "bme280_collector" /\ main.pc = "finally"
  /\ CollectorGoes([main EXCEPT !.ser_is_open = FALSE, !.pc = "reconnect_sleep"])

\* The sleep of the finally clause is over: a waiting return leaves main(),
\* otherwise the outer loop starts again.
ReconnectSleep ==
  /\ main.script = "bme280_collector" /\ main.pc = "reconnect_sleep"
  /\ CollectorGoes([main EXCEPT !.pc = IF main.returning THEN "ended" ELSE "detect"])

\* KeyboardInterrupt while the collector waits: inside the inner loop its
\* handler closes the port and returns through the finally clause; in a
\* sleep or in serial.Serial() outside it nothing catches it.
KeyboardInterrupt ==
  /\ main.script = "bme280_collector"
  /\ main.pc \in {"retry_sleep", "connect", "settle", "read", "reconnect_sleep"}
  /\ IF main.pc = "read"
     THEN CollectorGoes([main EXCEPT !.interrupted = TRUE, !.ser_is_open = FALSE,
                                     !.returning = TRUE, !.pc = "finally"])
     ELSE CollectorGoes([main EXCEPT !.interrupted = TRUE, !.raised = TRUE,
                                     !.pc = "ended"])

CollectorNext ==
  \/ InitCsv \/ DetectPort \/ RetrySleep \/ Connect \/ Settle \/ PortDrops
  \/ ReadFails \/ ReadNoise \/ ReadSample \/ Finally \/ ReconnectSleep
  \/ KeyboardInterrupt

CollectorSpec == CollectorInit /\ [][CollectorNext]_vars

(***************************************************************************)
(* Properties of the reset policy                                          *)
(***************************************************************************)
IsSample(t) == t.kind \in {"data", "early"}

\* The b-th burst is over: all of its samples have come in and none waits.
BurstOver(b) ==
  b < Len(main.starts) \/ (main.arrived = BurstSize /\ main.pending = <<>>)

\* What reset_count and the length of anomaly_log were when the b-th burst
\* was over, or are now while it is the last one.
AfterBurst(b) ==
  IF b < Len(main.starts) THEN main.starts[b + 1]
  ELSE [resets |-> reset_count, logged |-> Len(anomaly_log)]

\* The first anomaly of the b-th burst was logged at a time when
\* reset_arduino lets a first reset through.
FirstResetPermitted(b) ==
  /\ main.starts[b].logged < AfterBurst(b).logged
  /\ anomaly_log[main.starts[b].logged + 1].time + t0 >= MIN_RESET_INTERVAL

\* C1. Two DTR pulses are never closer than MIN_RESET_INTERVAL seconds, every
\* counted reset is one pulse, and a burst of BurstSize anomalous samples
\* that come in within one second, beginning with reset_count = 0 and with
\* its first reset permitted, has raised reset_count by exactly one when it
\* is over.
ResetIntervalRespected ==
  /\ reset_count = Len(dtr_log)
  /\ \A i, j \in DOMAIN dtr_log :
       i < j => dtr_log[j] - dtr_log[i] >= MIN_RESET_INTERVAL
  /\ \A b \in DOMAIN main.starts :
       (main.starts[b].resets = 0 /\ BurstOver(b) /\ FirstResetPermitted(b))
         => AfterBurst(b).resets - main.starts[b].resets = 1

\* The first burst began with reset_count = 0 and had its first reset
\* permitted: the reset was issued on the first of its ten samples and the
\* other nine were discarded with the input buffer.  The second burst began
\* with reset_count = 1, and the reset it asked for came too soon after the
\* first one and was suppressed.
ResetIntervalWitness ==
  /\ Len(main.starts) = 2
  /\ main.starts[1].resets = 0 /\ FirstResetPermitted(1)
  /\ main.starts[2].resets = 1
  /\ main.discarded = BurstSize - 1
  /\ reset_count = 1
  /\ tick.reset_called /\ ~ tick.reset_ok
  /\ tick.reset_time - last_reset_time < MIN_RESET_INTERVAL

\* C2. reset_count stays within 0..MAX_RESETS_BEFORE_ERROR and never
\* decreases; once it equals MAX_RESETS_BEFORE_ERROR no tick changes it,
\* calls reset_arduino or pulses DTR.
ResetBudgetStep ==
  /\ reset_count' \in 0..MAX_RESETS_BEFORE_ERROR
  /\ reset_count' >= reset_count
  /\ reset_count = MAX_RESETS_BEFORE_ERROR
       => /\ reset_count' = reset_count
          /\ dtr_log' = dtr_log
          /\ ~ tick'.reset_called

ResetBudget == reset_count \in 0..MAX_RESETS_BEFORE_ERROR /\ [][ResetBudgetStep]_vars

\* The budget is spent and a further anomaly was only reported.
ResetBudgetWitness ==
  /\ reset_count = MAX_RESETS_BEFORE_ERROR
  /\ tick.anomalies # <<>>
  /\ ~ tick.reset_called
  /\ txt_anomaly = "MAX RESETS ALCANZADO"

\* C3. A tick whose reset is suppressed by the interval guard leaves
\* reset_count and last_reset_time unchanged and last_values holding the
\* values of the current sample.
SuppressedStep ==
  (tick'.reset_called /\ ~ tick'.reset_ok)
    => /\ reset_count' = reset_count
       /\ last_reset_time' = last_reset_time
       /\ last_values' = [k \in Channels |->
                            IF k \in DOMAIN tick'.d THEN tick'.d[k] ELSE last_values[k]]

SuppressedHasNoSideEffects == [][SuppressedStep]_vars

\* C4. A tick pulses DTR exactly when some present channel is flagged by
\* check_anomaly against the previous last_values, the budget is not spent
\* and the interval since the last reset has passed; a sample that is out of
\* range without a flagged channel changes neither reset_count nor DTR.
Flagged(d, lv) == \E k \in DOMAIN d : check_anomaly(k, d[k], lv[k]).is_anomaly

ResetTriggerStep ==
  LET issued == dtr_log' # dtr_log
      now    == IF tick'.reset_called THEN tick'.reset_time ELSE tick'.current_time
  IN  IsSample(tick') =>
        /\ issued <=> ( /\ Flagged(tick'.d, last_values)
                        /\ reset_count < MAX_RESETS_BEFORE_ERROR
                        /\ now - last_reset_time >= MIN_RESET_INTERVAL )
        /\ issued => /\ dtr_log' = Append(dtr_log, now)
                     /\ reset_count' = reset_count + 1
        /\ (tick'.range_errors # <<>> /\ ~ Flagged(tick'.d, last_values))
             => (reset_count' = reset_count /\ dtr_log' = dtr_log)

ResetTrigger == [][ResetTriggerStep]_vars

\* A reset was issued by a sample with a flagged and an unflagged channel,
\* after an earlier sample was out of range without being flagged.
ResetTriggerWitness ==
  /\ tick.reset_ok
  /\ tick.anomalies = <<"temp">>
  /\ "hum" \in DOMAIN tick.d
  /\ out_of_range_count["temp"] = 0
  /\ reset_count = 2

(***************************************************************************)
(* Properties of the detectors                                             *)
(***************************************************************************)
\* C5. check_anomaly flags nothing when the previous value is None or NaN,
\* whatever the new value, and the sample that follows a tick that issued a
\* reset has no flagged channel.
NoAnomalyAfterUnknownStep ==
  /\ (fn'.name = "check_anomaly" /\ (IsNone(fn'.b) \/ IsNaN(fn'.b))) => ~ fn'.out
  /\ (tick.reset_ok /\ IsSample(tick')) => tick'.anomalies = <<>>

NoAnomalyAfterUnknown == [][NoAnomalyAfterUnknownStep]_vars

\* The second sample jumped to 95, a reset was issued, and the third sample
\* jumped back to 60 without being flagged.
NoAnomalyAfterUnknownWitness ==
  /\ packet_count = 3
  /\ Len(dtr_log) = 1
  /\ Len(anomaly_log) = 1
  /\ csv_rows[2]["temp"] = Num(95)
  /\ csv_rows[3]["temp"] = Num(60)
  /\ tick.anomalies = <<>>

\* C6. check_anomaly(c, a, b) flags an anomaly exactly when b is known (not
\* None, not NaN) and |a - b| is strictly greater than ANOMALY_THRESHOLDS[c]:
\* no difference with a NaN or missing a exceeds anything, the difference of
\* two numbers is compared with the threshold, and the difference with an
\* infinite value is infinite unless both are the same infinity.
AnomalyPredicate ==
  fn.name = "check_anomaly" =>
    (fn.out <=> ( /\ IsFloat(fn.b) /\ ~ IsNaN(fn.b)
                  /\ IsFloat(fn.a) /\ ~ IsNaN(fn.a)
                  /\ IF IsNum(fn.a) /\ IsNum(fn.b)
                     THEN Abs(fn.a.v - fn.b.v) > ANOMALY_THRESHOLDS[fn.key]
                     ELSE fn.a # fn.b ))

\* A change equal to the threshold was checked and not flagged.
AnomalyPredicateWitness ==
  /\ fn.name = "check_anomaly"
  /\ IsNum(fn.a) /\ IsNum(fn.b)
  /\ Abs(fn.a.v - fn.b.v) = ANOMALY_THRESHOLDS[fn.key]
  /\ ~ fn.out

\* C7. Both validity checks return true exactly when the value is a number
\* (not None, not NaN) within VALID_RANGES[c], both limits included.
ValidityPredicate ==
  fn.name \in {"is_value_in_valid_range", "is_value_valid"} =>
    (fn.out <=> ( /\ IsNum(fn.a)
                  /\ VALID_RANGES[fn.key][1] <= fn.a.v
                  /\ fn.a.v <= VALID_RANGES[fn.key][2] ))

\* A value equal to the upper limit was accepted.
ValidityPredicateWitness ==
  /\ fn.name = "is_value_in_valid_range"
  /\ fn.a = Num(VALID_RANGES[fn.key][2])
  /\ fn.out

(***************************************************************************)
(* Properties of the raw and clean windows                                 *)
(***************************************************************************)
InRange(k, x) ==
  IsNum(x) /\ VALID_RANGES[k][1] <= x.v /\ x.v <= VALID_RANGES[k][2]

\* The last WINDOW items of a sequence.
KeepLast(s) == IF Len(s) > WINDOW THEN SubSeq(s, Len(s) - WINDOW + 1, Len(s)) ELSE s

Row(t, h, p, a) == [temp |-> t, hum |-> h, pres |-> p, alt |-> a]

\* The samples {t:20}, {t:20, p:9999}, {t:21} of the specification's example.
ExampleRows ==
  << Row(Num(20), Blank, Blank, Blank),
     Row(Num(20), Blank, Num(9999), Blank),
     Row(Num(21), Blank, Blank, Blank) >>

\* C8. A sample with a present channel out of its valid range leaves t_clean
\* and every clean channel buffer as they were; after the samples {t:20},
\* {t:20, p:9999}, {t:21} the clean temperature window is [20, 21] and the raw
\* one holds all three.
CleanAllOrNothingStep ==
  (IsSample(tick') /\ \E k \in DOMAIN tick'.d : ~ InRange(k, tick'.d[k]))
    => (t_clean' = t_clean /\ clean_data' = clean_data)

CleanExample ==
  csv_rows = ExampleRows
    => /\ clean_data["temp"] = <<Num(20), Num(21)>>
       /\ raw_data["temp"] = <<Num(20), Num(20), Num(21)>>
       /\ Len(t_clean) = 2

CleanAllOrNothing == []CleanExample /\ [][CleanAllOrNothingStep]_vars

\* The three samples of the example have been ingested.
CleanAllOrNothingWitness ==
  /\ csv_rows = ExampleRows
  /\ tick.all_valid
  /\ clean_data["temp"] = <<Num(20), Num(21)>>
  /\ clean_data["pres"] = <<>>

\* C9. Every parsed record appends one entry to t_data and one to each raw
\* channel buffer: the record's value, else the buffer's last value, else NaN;
\* a dropped line appends nothing; all raw buffers are as long as t_data.
RawAlignedNow == \A k \in Channels : Len(raw_data[k]) = Len(t_data)

RawAppendStep ==
  IF IsSample(tick')
  THEN /\ t_data' = KeepLast(Append(t_data, tick'.current_time - t0))
       /\ \A k \in Channels :
            LET buf == raw_data[k]
                x   == IF k \in DOMAIN tick'.d THEN tick'.d[k]
                       ELSE IF buf # <<>> THEN buf[Len(buf)] ELSE NaN
            IN  raw_data'[k] = KeepLast(Append(buf, x))
  ELSE t_data' = t_data /\ raw_data' = raw_data

RawAligned == []RawAlignedNow /\ [][RawAppendStep]_vars

\* A record without temperature carried the last temperature forward, after
\* records without humidity had put NaN in the humidity buffer and an
\* out-of-range pressure had been appended and carried forward.
RawAlignedWitness ==
  /\ IsSample(tick)
  /\ "temp" \notin DOMAIN tick.d
  /\ Len(t_data) = 3
  /\ raw_data["temp"] = <<Num(20), Num(20), Num(20)>>
  /\ raw_data["pres"] = <<Num(9999), Num(9999), Num(1000)>>
  /\ raw_data["hum"][1] = NaN
  /\ raw_data["hum"][3] = Num(50)
  /\ ~ InRange("pres", raw_data["pres"][1])

\* C10. No raw or clean buffer is longer than WINDOW, and each channel buffer
\* holds the last WINDOW items, in arrival order, of everything appended to
\* it in the session; each append to a time buffer drops the oldest item of a
\* full buffer and nothing else.
RECURSIVE RawHistory(_, _)
RawHistory(k, rows) ==
  IF rows = <<>> THEN <<>>
  ELSE LET n    == Len(rows)
           rest == RawHistory(k, SubSeq(rows, 1, n - 1))
           x    == IF rows[n][k] # Blank THEN rows[n][k]
                   ELSE IF rest # <<>> THEN rest[Len(rest)] ELSE NaN
       IN  Append(rest, x)

RowAllValid(row) == \A k \in Channels : row[k] # Blank => InRange(k, row[k])

CleanHistory(k, rows) ==
  LET kept == SelectSeq(rows, LAMBDA row : RowAllValid(row) /\ row[k] # Blank)
  IN  [i \in 1..Len(kept) |-> kept[i][k]]

RollingWindowNow ==
  /\ Len(t_data) <= WINDOW /\ Len(t_clean) <= WINDOW
  /\ Len(t_data) = Len(KeepLast(csv_rows))
  /\ Len(t_clean) = Len(KeepLast(SelectSeq(csv_rows, RowAllValid)))
  /\ \A k \in Channels :
       /\ Len(raw_data[k]) <= WINDOW /\ Len(clean_data[k]) <= WINDOW
       /\ raw_data[k] = KeepLast(RawHistory(k, csv_rows))
       /\ clean_data[k] = KeepLast(CleanHistory(k, csv_rows))

TimeFifoStep ==
  IsSample(tick') =>
    LET now == tick'.current_time - t0
    IN  /\ t_data' = KeepLast(Append(t_data, now))
        /\ t_clean' = IF tick'.all_valid THEN KeepLast(Append(t_clean, now)) ELSE t_clean

RollingWindow == []RollingWindowNow /\ [][TimeFifoStep]_vars

\* WINDOW + 1 valid temperatures have arrived: the raw and the clean buffer
\* are full and have lost the first one.
RollingWindowWitness ==
  /\ Len(csv_rows) = WINDOW + 1
  /\ Len(CleanHistory("temp", csv_rows)) = WINDOW + 1
  /\ Len(clean_data["temp"]) = WINDOW
  /\ Len(raw_data["temp"]) = WINDOW
  /\ csv_rows[1]["temp"] = Num(20)
  /\ csv_rows[2]["temp"] = Num(21)
  /\ raw_data["temp"][1] = Num(21)
  /\ clean_data["temp"][1] = Num(21)
  /\ t_data[1] < t_data[WINDOW]

(***************************************************************************)
(* Properties of the persistent-error state                                *)
(***************************************************************************)
\* The number of most recent readings of channel k, among the rows received,
\* that were out of range with no reading in range after them.
RECURSIVE TrailingOutOfRange(_, _)
TrailingOutOfRange(k, rows) ==
  IF rows = <<>> THEN 0
  ELSE LET n == Len(rows)
           x == rows[n][k]
       IN  IF x = Blank THEN TrailingOutOfRange(k, SubSeq(rows, 1, n - 1))
           ELSE IF InRange(k, x) THEN 0
           ELSE 1 + TrailingOutOfRange(k, SubSeq(rows, 1, n - 1))

PersistentErrorNow ==
  \A k \in Channels :
    /\ out_of_range_count[k] = TrailingOutOfRange(k, csv_rows)
    /\ sensor_error_state[k] <=> out_of_range_count[k] >= CONSECUTIVE_ERRORS_FOR_ALERT

\* The flag of a channel falls only in a tick whose record has a reading of
\* that channel in range, and such a reading leaves streak 0 and flag down.
PersistentErrorStep ==
  \A k \in Channels :
    /\ (sensor_error_state[k] /\ ~ sensor_error_state'[k])
         => IsSample(tick') /\ k \in DOMAIN tick'.d /\ InRange(k, tick'.d[k])
    /\ (IsSample(tick') /\ k \in DOMAIN tick'.d /\ InRange(k, tick'.d[k]))
         => out_of_range_count'[k] = 0 /\ ~ sensor_error_state'[k]

\* C11. After every tick, for every channel, the persistent-error flag is up
\* exactly when the streak is at least CONSECUTIVE_ERRORS_FOR_ALERT, the
\* streak being the number of consecutive most recent out-of-range readings
\* of the channel; one reading in range sets the streak to 0 and lowers the
\* flag in the same tick, and nothing else lowers it.
PersistentError == []PersistentErrorNow /\ [][PersistentErrorStep]_vars

\* Five temperatures out of range in a row raised the flag (also across a
\* reset), and the sixth, in range, has just lowered it.
PersistentErrorWitness ==
  /\ Len(csv_rows) >= CONSECUTIVE_ERRORS_FOR_ALERT + 1
  /\ LET n == Len(csv_rows)
     IN  /\ TrailingOutOfRange("temp", SubSeq(csv_rows, 1, n - 1))
              >= CONSECUTIVE_ERRORS_FOR_ALERT
         /\ InRange("temp", csv_rows[n]["temp"])
  /\ ~ sensor_error_state["temp"]
  /\ out_of_range_count["temp"] = 0
  /\ reset_count > 0

(***************************************************************************)
(* Properties of the running statistics                                    *)
(***************************************************************************)
CleanStatsStep ==
  \A k \in Channels :
    IF IsSample(tick') /\ tick'.all_valid /\ k \in DOMAIN tick'.d
    THEN stats_clean'[k] = Accumulate(stats_clean[k], tick'.d[k])
    ELSE stats_clean'[k] = stats_clean[k]

CleanStatsCountNow ==
  \A k \in Channels : stats_clean[k].count = Len(CleanHistory(k, csv_rows))

\* C12. The clean statistics of a channel are updated exactly once by every
\* all-valid sample in which the channel is present and by nothing else, so
\* that their count is the number of values ever appended to the channel's
\* clean buffer.
CleanStatsGated == []CleanStatsCountNow /\ [][CleanStatsStep]_vars

\* Order of the values a minimum or maximum can hold: -inf below and +inf
\* above every number.
LeqValue(a, b) ==
  \/ a.tag = "-Inf"
  \/ b.tag = "Inf"
  \/ IsNum(a) /\ IsNum(b) /\ a.v <= b.v

RunningStatsMonotoneStep ==
  \A k \in Channels :
    /\ LeqValue(stats'[k].min, stats[k].min)
    /\ LeqValue(stats[k].max, stats'[k].max)
    /\ stats'[k].count >= stats[k].count
    /\ ~ FloatLess(stats'[k].sum, stats[k].sum)

\* C13 as stated. Across any sequence of calls of update_stats, for each
\* channel the minimum never increases, the maximum never decreases, and
\* count and sum only increase.
RunningStatsMonotone == [][RunningStatsMonotoneStep]_vars

RunningStatsStep ==
  \A k \in Channels :
    /\ LeqValue(stats'[k].min, stats[k].min)
    /\ LeqValue(stats[k].max, stats'[k].max)
    /\ IF fn'.name = "update_stats" /\ fn'.key = k
            /\ IsFloat(fn'.a) /\ ~ IsNaN(fn'.a)
       THEN /\ stats'[k].count = stats[k].count + 1
            /\ stats'[k].sum = FloatAdd(stats[k].sum, fn'.a)
            /\ LeqValue(stats'[k].min, fn'.a) /\ LeqValue(fn'.a, stats'[k].max)
       ELSE stats'[k] = stats[k]

\* C13, amended. Across any sequence of calls of update_stats, for each
\* channel the minimum never increases, the maximum never decreases, the
\* count grows by one with every number accepted and the sum changes by that
\* number (it decreases when the number is below zero); an unknown value or
\* a NaN changes nothing and nothing is ever reset.
RunningStats == [][RunningStatsStep]_vars

\* After -5 and 20 a third temperature, 0, left the extremes where they were;
\* the sum had gone below zero on the way.
RunningStatsWitness ==
  /\ fn.name = "update_stats" /\ fn.key = "temp" /\ fn.a = Num(0)
  /\ stats["temp"] = [min |-> Num(-5), max |-> Num(20), sum |-> Num(15), count |-> 3]

(***************************************************************************)
(* Properties of the parsers                                               *)
(***************************************************************************)
\* C14. A line of a telemetry grammar with a numeric field that does not
\* parse as a number yields no record at all: never a record holding only
\* the fields that came before the malformed one.
FailClosedParsing ==
  /\ (/\ fn.name = "bmp280_dashboard.parse_line"
      /\ Len(fn.fields) >= 4
      /\ \E i \in 2..4 : fn.fields[i] = Bad)
       => fn.out = <<>>
  /\ (/\ fn.name = "lora_dashboard.process_line"
      /\ Len(fn.fields) >= 5
      /\ \E i \in 1..Len(fn.fields) : i <= 6 /\ fn.fields[i] = Bad)
       => fn.out = None
  /\ (/\ fn.name = "ov7670_dashboard.parse_terrain_line"
      /\ \E i \in 1..Len(fn.fields) : fn.fields[i] = Bad)
       => fn.out = <<>>

(***************************************************************************)
(* Properties of the sideband values of lora_dashboard                     *)
(***************************************************************************)
IsSideband(l, kind) == l.kind = kind /\ IsNum(l.v)

\* Positions, in the stream read so far, of the lines that gave a record.
RecordPositions(seen) ==
  {i \in 1..Len(seen) : process_line(seen[i], None, None).d # None}

\* The value of the latest line of the kind before position p; none if there
\* is no such line.
LatestBefore(seen, kind, p, none) ==
  LET at == {i \in 1..(p - 1) : IsSideband(seen[i], kind)}
  IN  IF at = {} THEN none
      ELSE seen[CHOOSE i \in at : \A j \in at : j <= i].v

SidebandNow ==
  LET seen == lora.seen
      recs == RecordPositions(seen)
  IN  /\ lora.packet_count = Cardinality(recs)
      /\ Len(lora.log) = Cardinality(recs)
      /\ \A p \in recs :
           LET d == lora.log[Cardinality({q \in recs : q <= p})]
           IN  /\ d.rssi = LatestBefore(seen, "RSSI", p, NaN)
               /\ d.snr = LatestBefore(seen, "SNR", p, NaN)
      /\ lora.current_rssi = LatestBefore(seen, "RSSI", Len(seen) + 1, None)
      /\ lora.current_snr = LatestBefore(seen, "SNR", Len(seen) + 1, None)

\* A call of update() that read only RSSI and SNR lines left the packet
\* count, the buffers, the statistics and the log alone; one that read no
\* RSSI line left current_rssi alone, and likewise for SNR.
SidebandStep ==
  LET read == lora'.batch
  IN  /\ (\A i \in 1..Len(read) :
            IsSideband(read[i], "RSSI") \/ IsSideband(read[i], "SNR"))
        => /\ lora'.packet_count = lora.packet_count
           /\ lora'.log = lora.log
           /\ lora'.t_data = lora.t_data
           /\ lora'.data = lora.data
           /\ lora'.stats = lora.stats
      /\ (\A i \in 1..Len(read) : ~ IsSideband(read[i], "RSSI"))
        => lora'.current_rssi = lora.current_rssi
      /\ (\A i \in 1..Len(read) : ~ IsSideband(read[i], "SNR"))
        => lora'.current_snr = lora.current_snr

\* C15. In lora_dashboard an RSSI or SNR line only overwrites current_rssi
\* or current_snr and gives no record; every record assembled later carries
\* the values of the latest RSSI and SNR lines read before it (NaN if there
\* was none), and the stored values stay as they are across any other lines.
SidebandPersistence == []SidebandNow /\ [][SidebandStep]_vars

\* "RSSI: -34", then "RSSI: -90" and "SNR: 10", then a line that is neither
\* sideband nor a record, then a record: it carries -90 and 10.
SidebandPersistenceWitness ==
  LET seen == lora.seen
      n    == Len(seen)
  IN  /\ n >= 4
      /\ lora.log # <<>>
      /\ lora.log[Len(lora.log)].rssi = Num(-90)
      /\ lora.log[Len(lora.log)].snr = Num(10)
      /\ n \in RecordPositions(seen)
      /\ n - 1 \notin RecordPositions(seen)
      /\ ~ IsSideband(seen[n - 1], "RSSI") /\ ~ IsSideband(seen[n - 1], "SNR")
      /\ \E i, j \in 1..(n - 2) :
           /\ i < j
           /\ seen[i] = LoraLine("RSSI", Num(-34), <<>>)
           /\ seen[j] = LoraLine("RSSI", Num(-90), <<>>)

(***************************************************************************)
(* Properties of the session recorder                                      *)
(***************************************************************************)
\* The column of channel k in the row of record d: empty when d lacks it.
Column(d, k) == IF k \in DOMAIN d THEN d[k] ELSE Blank

RecorderStep ==
  IF IsSample(tick') /\ packet_count' # packet_count
  THEN csv_rows' = Append(csv_rows,
                          Row(Column(tick'.d, "temp"), Column(tick'.d, "hum"),
                              Column(tick'.d, "pres"), Column(tick'.d, "alt")))
  ELSE csv_rows' = csv_rows

\* C16. Every record parse_line produces is appended to the CSV log exactly
\* once and in arrival order, whether it is valid, anomalous or followed by
\* a reset, and nothing else is appended; the number of rows is packet_count.
RecorderComplete == [](Len(csv_rows) = packet_count) /\ [][RecorderStep]_vars

(***************************************************************************)
(* The end-to-end scenario                                                 *)
(***************************************************************************)
\* The tick of the third reading, 95: it is flagged against 21, counted as
\* one out-of-range reading, and reset_arduino is called, which pulses DTR
\* if and only if MIN_RESET_INTERVAL has passed since last_reset_time.
ScenarioSpikeStep ==
  (packet_count' = 3 /\ packet_count = 2) =>
    /\ tick'.anomalies = <<"temp">>
    /\ out_of_range_count'["temp"] = 1
    /\ tick'.reset_called
    /\ tick'.reset_ok <=> tick'.reset_time - last_reset_time >= MIN_RESET_INTERVAL
    /\ reset_count' = IF tick'.reset_ok THEN 1 ELSE 0
    /\ Len(dtr_log') = reset_count'

ScenarioEnd ==
  packet_count = Len(ScenarioReadings) =>
    /\ clean_data["temp"] = <<Num(20), Num(21), Num(22)>>
    /\ raw_data["temp"] = <<Num(20), Num(21), Num(95), Num(22)>>
    /\ Len(anomaly_log) = 1
    /\ anomaly_log[1].sensor = "temp"
    /\ anomaly_log[1].old_value = Num(21)
    /\ anomaly_log[1].new_value = Num(95)
    /\ reset_count <= 1
    /\ Len(dtr_log) = reset_count
    /\ ~ sensor_error_state["temp"]
    /\ out_of_range_count["temp"] = 0

\* C17. From an empty session the temperatures 20.0, 21.0, 95.0, 21.5 leave
\* the clean window [20.0, 21.0, 21.5], the raw window [20.0, 21.0, 95.0,
\* 21.5], exactly one anomaly logged, at the
\* 95.0, exactly one reset if the policy allowed it at that reading and
\* none otherwise, and the persistent-error flag down, the streak being 1
\* at the 95.0 and 0 at the end.
Scenario == []ScenarioEnd /\ [][ScenarioSpikeStep]_vars

\* The four readings have been taken and the reset at the third was issued.
ScenarioWitness ==
  /\ packet_count = Len(ScenarioReadings)
  /\ reset_count = 1
  /\ Len(anomaly_log) = 1
  /\ raw_data["temp"] = <<Num(20), Num(21), Num(95), Num(22)>>
  /\ clean_data["temp"] = <<Num(20), Num(21), Num(22)>>
  /\ last_values["temp"] = Num(22)

(***************************************************************************)
(* Properties of the release of resources                                  *)
(***************************************************************************)
\* C18. In every script that opens the serial port, when the main loop has
\* ended (window closed, interrupt or exception) and the process is over,
\* the serial port has been closed, and so has the CSV file where one is
\* kept open.
GuaranteedRelease ==
  main.pc = "ended" => ~ main.ser_is_open /\ ~ main.csv_open

(***************************************************************************)
(* Properties of alias resolution                                          *)
(***************************************************************************)
\* The keys of a line with their case folded, spelled out for the keys the
\* lines of the model carry.
Folded(k) ==
  CASE k = "T" -> "t" [] k = "Temp" -> "temp" [] k = "H" -> "h"
    [] k = "ALT" -> "alt" [] OTHER -> k

\* The value the line gives key a: that of the last pair that has the key.
ValueOf(pairs, a) ==
  LET at == {i \in 1..Len(pairs) : Folded(pairs[i][1]) = a}
  IN  Num(pairs[CHOOSE i \in at : \A j \in at : j <= i][2])

\* C19. parse_line matches keys whatever their case; a channel is in the
\* result exactly when one of its aliases is among the keys of the line, with
\* the value of a matching alias (the one the loop over the aliases meets
\* first: the only one when the line has one alias of the channel); keys that
\* are no alias are ignored and the result has no key that is not a channel.
AliasResolution ==
  fn.name = "parse_line" =>
    LET pairs == fn.pairs
        keys  == {Folded(pairs[i][1]) : i \in 1..Len(pairs)}
        d     == fn.out
    IN  /\ DOMAIN d \subseteq Channels
        /\ \A c \in Channels :
             /\ c \in DOMAIN d <=> KEYMAP[c] \cap keys # {}
             /\ c \in DOMAIN d =>
                  /\ \E a \in KEYMAP[c] \cap keys : d[c] = ValueOf(pairs, a)
                  /\ \A a \in KEYMAP[c] \cap keys :
                       KEYMAP[c] \cap keys = {a} => d[c] = ValueOf(pairs, a)
        /\ (\E i \in 1..Len(pairs) : pairs[i][1] \in {"T", "t", "Temp", "temperature"})
             <=> "temp" \in DOMAIN d
        /\ (\E i \in 1..Len(pairs) : pairs[i][1] = "ALT") <=> "alt" \in DOMAIN d

\* "T=1,rssi=2,temperature=2": two aliases of the temperature in different
\* case and a key that is no alias; the result has the temperature alone,
\* here with the value of "temperature".
AliasResolutionWitness ==
  /\ fn.name = "parse_line"
  /\ fn.pairs = << <<"T", 1>>, <<"rssi", 2>>, <<"temperature", 2>> >>
  /\ fn.out = [k \in {"temp"} |-> Num(2)]

(***************************************************************************)
(* Properties of the value an anomaly is measured against                  *)
(***************************************************************************)
\* The latest reading of channel k among the rows received; none without.
LatestReading(k, rows, none) ==
  LET at == {i \in 1..Len(rows) : rows[i][k] # Blank}
  IN  IF at = {} THEN none ELSE rows[CHOOSE i \in at : \A j \in at : j <= i][k]

FlaggedIn(t, k) == \E i \in 1..Len(t.anomalies) : t.anomalies[i] = k

BaselineAcceptedStep ==
  /\ (IsSample(tick') /\ ~ tick'.reset_called) =>
       \A k \in DOMAIN tick'.d :
         (~ InRange(k, tick'.d[k]) \/ FlaggedIn(tick', k))
           => last_values'[k] = last_values[k]
  /\ (/\ IsSample(tick) /\ IsSample(tick')
      /\ reset_count = MAX_RESETS_BEFORE_ERROR
      /\ FlaggedIn(tick, "temp") /\ ~ tick.reset_called
      /\ "temp" \in DOMAIN tick'.d
      /\ tick'.d["temp"] = anomaly_log[Len(anomaly_log)].old_value)
       => ~ FlaggedIn(tick', "temp")

\* C20 as stated. The value a reading is compared with is the latest
\* accepted reading of its channel: a reading that was out of range or
\* flagged does not become that value, so that, when no reset cleared the
\* state, the way back from a spike to the level before it is not flagged.
BaselineAccepted == [][BaselineAcceptedStep]_vars

BaselineNow ==
  \A k \in Channels :
    last_values[k] # None => last_values[k] = LatestReading(k, csv_rows, None)

BaselineStep ==
  IsSample(tick') =>
    /\ \A k \in Channels :
         FlaggedIn(tick', k)
           <=> /\ k \in DOMAIN tick'.d
               /\ IsNum(last_values[k])
               /\ Abs(tick'.d[k].v - last_values[k].v) > ANOMALY_THRESHOLDS[k]
    /\ ~ tick'.reset_called =>
         last_values' = [k \in Channels |->
                           IF k \in DOMAIN tick'.d THEN tick'.d[k]
                           ELSE last_values[k]]

\* C20, amended. The value a reading is compared with is what last_values
\* holds when the tick starts: unknown, or the latest reading of the channel,
\* in range or not and flagged or not; every tick that does not call
\* reset_arduino leaves each reading of the sample there.  Once the resets
\* are spent, the way back from a spike is therefore flagged as well.
Baseline == []BaselineNow /\ [][BaselineStep]_vars

\* The resets are spent; a spike was flagged and, in the next tick, so was
\* the way back to the level before it.
BaselineWitness ==
  /\ reset_count = MAX_RESETS_BEFORE_ERROR
  /\ Len(anomaly_log) = MAX_RESETS_BEFORE_ERROR + 2
  /\ tick.anomalies = <<"temp">> /\ ~ tick.reset_called
  /\ LET n == Len(anomaly_log)
     IN  /\ anomaly_log[n].old_value = anomaly_log[n - 1].new_value
         /\ anomaly_log[n].new_value = anomaly_log[n - 1].old_value
         /\ ~ InRange("temp", anomaly_log[n].old_value)

(***************************************************************************)
(* Effects of an issued reset                                              *)
(***************************************************************************)
\* What the sample d alone leaves in a raw buffer, a streak counter and the
\* count of a statistics entry.
RawAfterSample(buf, k, d) ==
  KeepLast(Append(buf, IF k \in DOMAIN d THEN d[k]
                       ELSE IF buf # <<>> THEN buf[Len(buf)] ELSE NaN))

StreakAfterSample(n, k, d) ==
  IF k \notin DOMAIN d THEN n ELSE IF InRange(k, d[k]) THEN 0 ELSE n + 1

\* C21: in a tick in which reset_arduino pulses DTR, reset_count grows by
\* exactly one, last_reset_time is the time reset_arduino read when it
\* started, the input buffer of the port is cleared once and every entry of
\* last_values is None; the raw and clean buffers, both statistics tables and
\* the streak counters are what the sample alone leaves in them.
IssuedResetStep ==
  tick'.reset_ok =>
    LET d == tick'.d
    IN  /\ reset_count' = reset_count + 1
        /\ last_reset_time' = tick'.reset_time
        /\ dtr_log' = Append(dtr_log, tick'.reset_time)
        /\ input_flushes' = input_flushes + 1
        /\ \A k \in Channels : last_values'[k] = None
        /\ t_data' = KeepLast(Append(t_data, tick'.current_time - t0))
        /\ \A k \in Channels :
             /\ raw_data'[k] = RawAfterSample(raw_data[k], k, d)
             /\ out_of_range_count'[k] = StreakAfterSample(out_of_range_count[k], k, d)
             /\ stats'[k].count = stats[k].count + (IF k \in DOMAIN d THEN 1 ELSE 0)
             /\ k \notin DOMAIN d => stats'[k] = stats[k]
             /\ ~ tick'.all_valid =>
                  clean_data'[k] = clean_data[k] /\ stats_clean'[k] = stats_clean[k]
             /\ tick'.all_valid /\ k \in DOMAIN d =>
                  clean_data'[k] = KeepLast(Append(clean_data[k], d[k]))
        /\ ~ tick'.all_valid => t_clean' = t_clean

IssuedReset == [][IssuedResetStep]_vars

\* The third reset has been issued, with full raw buffers, by a sample that
\* passed the validity filter.
IssuedResetWitness ==
  /\ tick.reset_ok
  /\ tick.all_valid
  /\ reset_count = MAX_RESETS_BEFORE_ERROR
  /\ Len(t_data) = WINDOW
  /\ last_reset_time = tick.reset_time
  /\ last_reset_time < clock

(***************************************************************************)
(* Order of the anomaly check and the update of last_values                *)
(***************************************************************************)
\* The entries a step adds to anomaly_log.
LoggedBy(before, after) == SubSeq(after, Len(before) + 1, Len(after))

\* C22: in every tick that takes a sample, each present channel is checked
\* against last_values as the previous tick left it (the logged old value is
\* that value, and a channel is logged exactly when its reading is more than
\* the threshold away from it); last_values then takes the readings of the
\* sample, and the reset handling, when it runs, clears what was written.
CheckThenUpdateStep ==
  IsSample(tick') =>
    LET d      == tick'.d
        logged == LoggedBy(anomaly_log, anomaly_log')
    IN  /\ SubSeq(anomaly_log', 1, Len(anomaly_log)) = anomaly_log
        /\ \A i \in 1..Len(logged) :
             /\ logged[i].sensor \in DOMAIN d
             /\ logged[i].old_value = last_values[logged[i].sensor]
             /\ logged[i].new_value = d[logged[i].sensor]
        /\ \A k \in DOMAIN d :
             (\E i \in 1..Len(logged) : logged[i].sensor = k)
               <=> ( /\ IsNum(last_values[k])
                     /\ Abs(d[k].v - last_values[k].v) > ANOMALY_THRESHOLDS[k] )
        /\ last_values' =
             IF tick'.reset_called THEN [k \in Channels |-> None]
             ELSE [k \in Channels |-> IF k \in DOMAIN d THEN d[k] ELSE last_values[k]]

CheckThenUpdate == [][CheckThenUpdateStep]_vars

\* A sample of two channels had one of them logged, against the reading of
\* the sample before, and the budget was spent: last_values holds the sample.
CheckThenUpdateWitness ==
  /\ IsSample(tick)
  /\ DOMAIN tick.d = {"temp", "hum"}
  /\ tick.anomalies = <<"temp">>
  /\ ~ tick.reset_called
  /\ anomaly_log # <<>>
  /\ anomaly_log[Len(anomaly_log)].old_value = Num(95)
  /\ anomaly_log[Len(anomaly_log)].new_value = Num(60)
  /\ last_values["temp"] = Num(60)
  /\ last_values["hum"] = Num(50)

(***************************************************************************)
(* Priority of the status messages                                         *)
(***************************************************************************)
\* C23: at the end of a tick that took a sample and drew it, if some channel
\* is in persistent-error state the status text is the persistent-error
\* message, not the anomaly, the exhausted-resets or the out-of-range one.
StatusPriority ==
  (tick.kind = "data" /\ \E k \in Channels : sensor_error_state[k])
    => txt_anomaly = "ERROR SENSOR"

(***************************************************************************)
(* Records drained in one call of bmp280_dashboard.update                  *)
(***************************************************************************)
\* C24: every call of bmp280_dashboard.update folds each record it parsed,
\* in the order of arrival: packet_count grows by the number of records read,
\* the CSV log gets one row for each, and the raw window of the times and of
\* every channel gets one item for each.
EveryRecordFoldedStep ==
  fn'.name = "bmp280_dashboard.update" =>
    LET recs == fn'.parsed
        n    == Len(recs)
    IN  /\ packet_count' = packet_count + n
        /\ Len(csv_rows') = Len(csv_rows) + n
        /\ \A i \in 1..n : \A k \in Bmp280Channels :
             csv_rows'[Len(csv_rows) + i][k] = Column(recs[i], k)
        /\ \A k \in Bmp280Channels :
             /\ Len(raw_data'[k]) = Len(t_data')
             /\ Len(raw_data[k]) + n <= WINDOW => Len(raw_data'[k]) = Len(raw_data[k]) + n
        /\ (n > 0 /\ ~ tick'.reset_called) =>
             \A k \in DOMAIN recs[n] : last_values'[k] = recs[n][k]

EveryRecordFolded == [][EveryRecordFoldedStep]_vars

(***************************************************************************)
(* The cap on the lines read in one tick                                   *)
(***************************************************************************)
\* C25: one call of update() of a dashboard that drains the serial buffer in
\* a loop reads at most 20 lines, whatever they hold and however many wait.
ReadCap ==
  fn.name \in {"bmp280_dashboard.update", "lora_dashboard.update",
               "ov7670_dashboard.update"}
    => fn.out <= LINES_PER_TICK

(***************************************************************************)
(* Lines that are dropped                                                  *)
(***************************************************************************)
\* A line that is empty, carries "error=" or "info=", or has no pair whose
\* key is an alias of a channel.
IsNoise(line) ==
  \/ line.marker \in {"error=", "info="}
  \/ \A i \in 1..Len(line.pairs) :
       \A c \in Channels : Lower(line.pairs[i][1]) \notin KEYMAP[c]

\* C26: a call of update() that reads such a line leaves packet_count, the
\* raw and clean buffers, both statistics tables, last_values, the streak
\* counters, the persistent-error flags, reset_count, last_reset_time and the
\* CSV log as they were (and the call returns: it is a step of the session).
DroppedLineStep ==
  \/ UNCHANGED <<packet_count, t_data, raw_data, t_clean, clean_data, stats,
                 stats_clean, last_values, out_of_range_count,
                 sensor_error_state, reset_count, last_reset_time, csv_rows,
                 anomaly_log, dtr_log, input_flushes>>
  \/ \A line \in Lines, dt \in Dts :
       ~ (IsNoise(line) /\ update(line, dt, {0}, MaxPackets, MaxElapsed))

DroppedLine == [][DroppedLineStep]_vars

\* A line was dropped in a session that had taken samples, logged an anomaly
\* and issued a reset.
DroppedLineWitness ==
  /\ tick.kind = "dropped"
  /\ packet_count >= 2
  /\ reset_count = 1
  /\ \E k \in Channels : last_values[k] # None
  /\ \E k \in Channels : stats[k].count > 0

(***************************************************************************)
(* Raw statistics and the fillers of the raw window                        *)
(***************************************************************************)
\* The samples logged so far in which channel k was present, and their sum.
PresentIn(k, rows) == {i \in 1..Len(rows) : rows[i][k] # Blank}

RECURSIVE SumOf(_, _)
SumOf(k, rows) ==
  IF rows = <<>> THEN Num(0)
  ELSE FloatAdd(SumOf(k, SubSeq(rows, 1, Len(rows) - 1)),
                IF rows[Len(rows)][k] # Blank THEN rows[Len(rows)][k] ELSE Num(0))

\* C27: stats[k] counts the samples in which channel k was present, and adds
\* up their readings, whatever fillers the raw window of k received.
RawStatsNow ==
  \A k \in Channels :
    /\ stats[k].count = Cardinality(PresentIn(k, csv_rows))
    /\ stats[k].sum = SumOf(k, csv_rows)

\* A sample changes stats[k] exactly when k is present in it (its reading is
\* then a number); a filler appended to the raw window leaves stats[k] alone.
RawStatsStep ==
  IsSample(tick') =>
    \A k \in Channels :
      IF k \in DOMAIN tick'.d
      THEN /\ IsNum(tick'.d[k])
           /\ stats'[k].count = stats[k].count + 1
           /\ stats'[k].sum = FloatAdd(stats[k].sum, tick'.d[k])
           /\ raw_data'[k][Len(raw_data'[k])] = tick'.d[k]
      ELSE /\ stats'[k] = stats[k]
           /\ Len(raw_data'[k]) = Len(t_data')

RawStats == []RawStatsNow /\ [][RawStatsStep]_vars

\* The raw window of a channel holds a NaN filler, a reading and that reading
\* carried forward by the latest sample; its statistics count one reading.
RawStatsWitness ==
  \E k \in Channels :
    /\ IsSample(tick)
    /\ k \notin DOMAIN tick.d
    /\ Len(raw_data[k]) = 3
    /\ raw_data[k][1] = NaN
    /\ IsNum(raw_data[k][2])
    /\ raw_data[k][3] = raw_data[k][2]
    /\ stats[k].count = 1
    /\ packet_count = 3

(***************************************************************************)
(* Missing values in the buffers of lora_dashboard                         *)
(***************************************************************************)
\* The buffer and statistics key of a sideband line.
SidebandKey(kind) == IF kind = "RSSI" THEN "rssi" ELSE "snr"

\* C28: the six channel buffers of lora_dashboard are as long as t_data; a
\* channel whose value is missing in a primary record gets the buffer's last
\* value, or NaN when the buffer is empty, and its statistics are left alone:
\* while no RSSI (SNR) line has been read, the rssi (snr) buffer holds NaN
\* only and the statistics of the channel count nothing.
MissingValues ==
  /\ \A k \in LoraKeys : Len(lora.data[k]) = Len(lora.t_data)
  /\ \A kind \in {"RSSI", "SNR"} :
       (\A i \in 1..Len(lora.seen) : ~ IsSideband(lora.seen[i], kind))
         => /\ \A j \in 1..Len(lora.data[SidebandKey(kind)]) :
                 lora.data[SidebandKey(kind)][j] = NaN
            /\ lora.stats[SidebandKey(kind)].count = 0

(***************************************************************************)
(* The reconnect loop of the collector                                     *)
(***************************************************************************)
\* C29: in bme280_collector.main the port is closed whenever a connection is
\* attempted, a read error or a closed port leads to a new attempt and never
\* ends the collector, and the collector ends only on a user interrupt, with
\* the port closed.
ReconnectLoopNow ==
  main.script = "bme280_collector" =>
    /\ main.pc \in {"detect", "connect"} => ~ main.ser_is_open
    /\ main.pc = "ended" => (main.interrupted /\ ~ main.ser_is_open)

ReconnectLoopStep ==
  (main.script = "bme280_collector" /\ main.pc = "reconnect_sleep"
     /\ ~ main.interrupted /\ main'.pc # main.pc)
    => main'.pc = "detect"

ReconnectLoop == []ReconnectLoopNow /\ [][ReconnectLoopStep]_vars

(***************************************************************************)
(* Session initialization when the collector reconnects                    *)
(***************************************************************************)
\* C30: every connection of bme280_collector.main has init_csv run for it
\* before its samples are recorded: while the collector reads from its n-th
\* connection, init_csv has been called n times.
InitOnReconnect ==
  (main.script = "bme280_collector" /\ main.pc = "read")
    => main.init_csv_calls = main.connects

(***************************************************************************)
(* Alignment of the clean series with the clean time axis                  *)
(***************************************************************************)
\* C31: every clean channel buffer (temp_clean, hum_clean, pres_clean,
\* alt_clean) has the same length as t_clean after any sequence of samples,
\* partial records included.
CleanAligned ==
  \A k \in Channels : Len(clean_data[k]) = Len(t_clean)

(***************************************************************************)
(* Frame conditions of the streak counters and persistent-error flags      *)
(***************************************************************************)
\* What the sample d alone leaves in a persistent-error flag whose streak
\* counter was n.
FlagAfterSample(flag, n, k, d) ==
  IF k \notin DOMAIN d THEN flag
  ELSE IF InRange(k, d[k]) THEN FALSE
  ELSE IF n + 1 >= CONSECUTIVE_ERRORS_FOR_ALERT THEN TRUE
  ELSE flag

\* C32: a sample in which channel k is absent leaves out_of_range_count[k] and
\* sensor_error_state[k] unchanged, and in a tick that calls reset_arduino
\* (whether the reset is issued or refused) the streak counters and the
\* persistent-error flags of all channels are what the sample alone leaves in
\* them.
StreakFrameStep ==
  /\ IsSample(tick') =>
       \A k \in Channels \ DOMAIN tick'.d :
         /\ out_of_range_count'[k] = out_of_range_count[k]
         /\ sensor_error_state'[k] = sensor_error_state[k]
  /\ tick'.reset_called =>
       \A k \in Channels :
         /\ out_of_range_count'[k] =
              StreakAfterSample(out_of_range_count[k], k, tick'.d)
         /\ sensor_error_state'[k] =
              FlagAfterSample(sensor_error_state[k], out_of_range_count[k],
                              k, tick'.d)

StreakFrame == [][StreakFrameStep]_vars

\* A reset has been issued by a sample without pressure while the pressure
\* has a streak of CONSECUTIVE_ERRORS_FOR_ALERT readings out of range and its
\* persistent-error flag raised.
StreakFrameWitness ==
  /\ tick.reset_ok
  /\ "pres" \notin DOMAIN tick.d
  /\ out_of_range_count["pres"] = CONSECUTIVE_ERRORS_FOR_ALERT
  /\ sensor_error_state["pres"]
  /\ \A k \in Channels : last_values[k] = None

(***************************************************************************)
(* Secondary records in lora_dashboard                                     *)
(***************************************************************************)
\* A "CANSAT_SEC," line with its twelve numeric fields.
IsSecLine(l) ==
  /\ l.kind = "CANSAT_SEC"
  /\ Len(l.fields) >= 12
  /\ \A i \in 1..12 : IsNum(l.fields[i])

OfType(rows, type) == SelectSeq(rows, LAMBDA d : d.type = type)

\* C33: in every call of lora_dashboard.update (the clock moves) each CANSAT_SEC record read
\* increments packet_count and appends one CSV row of type SEC; a call that
\* reads no primary record leaves t_data, the six channel buffers and all
\* statistics unchanged, and t_data grows by the primary records only.
SecondaryFrameStep ==
  LET rows == LoggedBy(lora.log, lora'.log)
      sec  == OfType(rows, "SEC")
      pri  == OfType(rows, "PRI")
      grown == Len(lora.t_data) + Len(pri)
  IN  clock' # clock =>
        /\ SubSeq(lora'.log, 1, Len(lora.log)) = lora.log
        /\ Len(sec) = Len(SelectSeq(lora'.batch, IsSecLine))
        /\ Len(rows) = Len(sec) + Len(pri)
        /\ lora'.packet_count = lora.packet_count + Len(rows)
        /\ pri = <<>> =>
             /\ lora'.t_data = lora.t_data
             /\ lora'.data = lora.data
             /\ lora'.stats = lora.stats
        /\ Len(lora'.t_data) = IF grown > WINDOW THEN WINDOW ELSE grown

SecondaryFrame == [][SecondaryFrameStep]_vars

(***************************************************************************)
(* Counters of interpretador.update                                        *)
(***************************************************************************)
\* A parsed record of interpretador none of whose channels is out of range.
SeenValid(r) == \A k \in Channels \cap DOMAIN r.d : InRange(k, r.d[k])

RECURSIVE TimesOf(_)
TimesOf(rs) ==
  IF rs = <<>> THEN <<>> ELSE <<Head(rs).now>> \o TimesOf(Tail(rs))

\* C34: in interpretador, packet_count = valid_count + invalid_count after any
\* sequence of ticks; every parsed record increments packet_count and exactly
\* one of valid_count and invalid_count, and no other tick changes a counter;
\* valid_count is the number of records that passed the filter, t_clean holds
\* the times of the latest of them, and len(t_clean) = min(valid_count, WINDOW).
CounterConservationNow ==
  main.script = "interpretador" =>
    LET valid == SelectSeq(main.seen, SeenValid)
    IN  /\ main.packet_count = main.valid_count + main.invalid_count
        /\ main.packet_count = Len(main.seen)
        /\ main.valid_count = Len(valid)
        /\ main.t_clean = KeepLast(TimesOf(valid))
        /\ Len(main.t_clean) = IF main.valid_count < WINDOW
                               THEN main.valid_count ELSE WINDOW

CounterConservationStep ==
  main.script = "interpretador" =>
    LET dv == main'.valid_count - main.valid_count
        di == main'.invalid_count - main.invalid_count
    IN  /\ main'.packet_count - main.packet_count \in {0, 1}
        /\ main'.packet_count = main.packet_count =>
             (dv = 0 /\ di = 0 /\ main'.t_clean = main.t_clean)
        /\ main'.packet_count = main.packet_count + 1 =>
             (<<dv, di>> \in {<<1, 0>>, <<0, 1>>}
                /\ Len(main'.seen) = Len(main.seen) + 1)

CounterConservation ==
  []CounterConservationNow /\ [][CounterConservationStep]_vars

\* More valid records than the clean window holds, and a filtered one.
CounterConservationWitness ==
  /\ main.script = "interpretador"
  /\ main.packet_count = WINDOW + 2
  /\ main.valid_count = WINDOW + 1
  /\ main.invalid_count = 1
  /\ Len(main.t_clean) = WINDOW

(***************************************************************************)
(* Rows recorded by vegetation_fire_dashboard                              *)
(***************************************************************************)
\* A FIRE_PROB line whose values float() accepts.
IsFireSample(l) ==
  /\ l.kind = "="
  /\ ~ veg_parse_line(l).raises
  /\ veg_parse_line(l).type = [tag |-> "Text", s |-> "FIRE_PROB"]

\* C35: every call of vegetation_fire_dashboard.update appends exactly one
\* CSV row for each FIRE_PROB sample it received, and so no row in a call
\* that received none (a call that reads no line appends no row).
RowPerFireSampleStep ==
  (main.script = "vegetation_fire_dashboard" /\ clock' # clock)
    => Len(main'.rows) - Len(main.rows)
         = Len(SelectSeq(main'.batch, IsFireSample))

RowPerFireSample == [][RowPerFireSampleStep]_vars

====
